---- MODULE Spec2Model ----
(***************************************************************************)
(* Freshness / deduplication engine of the OLX / OTOMOTO monitor           *)
(* (src/OLX_parser_drissonpage.py).                                        *)
(*                                                                         *)
(* Time is the wall clock in whole minutes since 2024-01-01 00:00.         *)
(* A date phrase is a sequence of whitespace-separated tokens.             *)
(***************************************************************************)
EXTENDS Integers, Sequences, FiniteSets, TLC

VARIABLES
    clock,          \* the wall clock, minutes since 2024-01-01 00:00
    ticks,          \* how often the clock has advanced
    main_pc,        \* main(): "down", "recover", "cycle", "scanning", "cooldown"
    db,             \* table ads: link -> row
    last_cleanup,   \* settings row 'last_cleanup'
    cache,          \* PUBLICATION_DATE_CACHE
    scan,           \* quick_check_ads of each source: its locals and position
    handed,         \* links for which a delivery thread has been started
    rehanded,       \* links for which that has happened more than once
    undelivered,    \* links for which a delivery thread has given up
    found_fresh,    \* quick_check_all_urls: found_fresh before the scans return
    tg,             \* send_telegram_async of one ad: its position and outcomes
    ADMIN_IDS,      \* env_loader.ADMIN_IDS as loaded from the environment
    urls_file,      \* the list in URLS_FILE
    menu,           \* the URLs of the delete menu shown most recently, in button order
    jobs,           \* the command handler each worker thread of the bot runs
    answer,         \* the reply to the command handled most recently
    age_calls,      \* get_cached_ad_age run by each scan thread: its position
    lock_held,      \* the scan thread that holds lock, 0 when it is free
    sends,          \* each scan thread and its delivery thread: their positions
    ever_sent,      \* links whose row has had sent_to_telegram = 1
    ret,            \* the store call of the last step and what it returned
    parse_in,       \* parse_polish_date called on its own: date_str and now
    parse_out       \* what that call returned

vars == <<clock, ticks, main_pc, db, last_cleanup, cache, scan, handed, rehanded,
          undelivered, found_fresh, tg, ADMIN_IDS, urls_file, menu, jobs, answer,
          age_calls, lock_held, sends, ever_sent, ret, parse_in, parse_out>>

\* the parts of the program that are modelled on their own
bot_vars == <<ADMIN_IDS, urls_file, menu, jobs, answer>>
side == <<tg, bot_vars, age_calls, lock_held, sends>>

(***************************************************************************)
(* Program constants                                                       *)
(***************************************************************************)
MAX_CACHE_SIZE == 1000
MAX_AD_AGE_MINUTES == 50
VERY_FRESH_AD_MINUTES == 10
SKIP_FIRST_N_ADS == 2
MAX_CARDS_TO_CHECK == 13
CONSECUTIVE_OLD_COUNT == 3
MAX_PROMO_TO_CHECK == 3
MAX_PARALLEL_URLS == 3
QUICK_CHECK_INTERVAL == 15
MIN_INTERVAL == 20
ERROR_COOLDOWN == 20
max_retries == 5
retry_delay == 3
EARLY_EXIT_ON_OLD == TRUE

\* float('inf'): larger than every finite age the model can produce
INF == 2000000000

POLISH_MONTHS ==
    [w \in {"stycznia", "lutego", "marca", "kwietnia", "maja", "czerwca",
            "lipca", "sierpnia", "wrzesnia", "pazdziernika", "listopada",
            "grudnia"} |->
        CASE w = "stycznia" -> 1 [] w = "lutego" -> 2 [] w = "marca" -> 3
          [] w = "kwietnia" -> 4 [] w = "maja" -> 5 [] w = "czerwca" -> 6
          [] w = "lipca" -> 7 [] w = "sierpnia" -> 8 [] w = "wrzesnia" -> 9
          [] w = "pazdziernika" -> 10 [] w = "listopada" -> 11
          [] w = "grudnia" -> 12]

(***************************************************************************)
(* datetime: the proleptic Gregorian calendar of Python's datetime          *)
(***************************************************************************)
IsLeap(y) == (y % 4 = 0) /\ ((y % 100 # 0) \/ (y % 400 = 0))

DaysInMonth(y, m) ==
    IF m = 2 THEN (IF IsLeap(y) THEN 29 ELSE 28)
    ELSE IF m \in {4, 6, 9, 11} THEN 30 ELSE 31

\* days before January 1st of year y, counted from 0001-01-01
DaysBeforeYear(y) ==
    LET z == y - 1 IN 365 * z + (z \div 4) - (z \div 100) + (z \div 400)

RECURSIVE DaysBeforeMonth(_, _)
DaysBeforeMonth(y, m) ==
    IF m = 1 THEN 0 ELSE DaysBeforeMonth(y, m - 1) + DaysInMonth(y, m - 1)

\* the clock's epoch, 2024-01-01, as a day count
EpochDays == DaysBeforeYear(2024)

\* a datetime is kept as its minutes since 2024-01-01 00:00; a constructor
\* that raises ValueError gives ok = FALSE
ValidDate(y, m, d) ==
    /\ y >= 1 /\ y <= 9999
    /\ m >= 1 /\ m <= 12
    /\ d >= 1 /\ d <= DaysInMonth(y, m)

ValidTime(h, mi) == h >= 0 /\ h <= 23 /\ mi >= 0 /\ mi <= 59

Minutes(y, m, d, h, mi) ==
    (DaysBeforeYear(y) - EpochDays + DaysBeforeMonth(y, m) + d - 1)
        * 1440 + h * 60 + mi

\* datetime(year, month, day, hours, minutes)
datetime(y, m, d, h, mi) ==
    IF ValidDate(y, m, d) /\ ValidTime(h, mi)
    THEN [ok |-> TRUE, t |-> Minutes(y, m, d, h, mi)]
    ELSE [ok |-> FALSE, t |-> 0]

\* the fields of a clock value t >= 0
YearOf(t) ==
    CHOOSE y \in 2024..2030 :
        /\ Minutes(y, 1, 1, 0, 0) <= t
        /\ t < Minutes(y + 1, 1, 1, 0, 0)

MonthOf(t) ==
    LET y == YearOf(t) IN
    CHOOSE m \in 1..12 :
        /\ Minutes(y, m, 1, 0, 0) <= t
        /\ t < Minutes(y, m, 1, 0, 0) + DaysInMonth(y, m) * 1440

DayStart(t) == t - (t % 1440)

\* now.replace(hour=h, minute=mi, second=0, microsecond=0)
replace(t, h, mi) ==
    IF ValidTime(h, mi)
    THEN [ok |-> TRUE, t |-> DayStart(t) + h * 60 + mi]
    ELSE [ok |-> FALSE, t |-> 0]

(***************************************************************************)
(* Date phrases.  A token is a marker ("dzisiaj o", ...), a time "H:M",    *)
(* a number, or a word; date_str is the lower-cased, stripped phrase.      *)
(***************************************************************************)
Mark(s) == [k |-> "mark", s |-> s, a |-> 0, b |-> 0]
Time(h, mi) == [k |-> "time", s |-> "", a |-> h, b |-> mi]
Num(n) == [k |-> "num", s |-> "", a |-> n, b |-> 0]
Word(w) == [k |-> "word", s |-> w, a |-> 0, b |-> 0]

\* "marker in date_str"
Contains(date_str, s) == \E i \in 1..Len(date_str) : date_str[i] = Mark(s)

FirstIndex(date_str, s) ==
    CHOOSE i \in 1..Len(date_str) :
        /\ date_str[i] = Mark(s)
        /\ \A j \in 1..(i - 1) : date_str[j] # Mark(s)

\* date_str.split(marker)[1].strip(): what stands between the first
\* occurrence of the marker and the next one (or the end)
SplitAfter(date_str, s) ==
    LET i == FirstIndex(date_str, s)
        later == {j \in (i + 1)..Len(date_str) : date_str[j] = Mark(s)}
        stop == IF later = {} THEN Len(date_str) + 1
                ELSE CHOOSE j \in later : \A k \in later : j <= k
    IN SubSeq(date_str, i + 1, stop - 1)

\* hours, minutes = map(int, time_part.split(':')): exactly one "H:M" token
\* gives two integers, anything else raises
TimePart(time_part) ==
    IF Len(time_part) = 1 /\ time_part[1].k = "time"
    THEN [ok |-> TRUE, h |-> time_part[1].a, mi |-> time_part[1].b]
    ELSE [ok |-> FALSE, h |-> 0, mi |-> 0]

\* the digits a (\d+)\s+ can end on: a number, or the minutes of "H:M"
EndsInDigits(tok) == tok.k \in {"num", "time"}
DigitsOf(tok) == IF tok.k = "time" THEN tok.b ELSE tok.a

\* a token that (\w+)\s+ or (\w+)$ matches as a whole
WholeWord(tok) == tok.k \in {"num", "word"} \/ tok = Mark("odswiezono")
\* a token (\d{4}) matches at its start
FourDigits(tok) == tok.k = "num" /\ tok.a >= 1000 /\ tok.a <= 9999

\* POLISH_MONTHS.get(month_name, now.month), month_name the text of (\w+)
MonthGet(tok, now) ==
    IF tok.k = "word" /\ tok.s \in DOMAIN POLISH_MONTHS
    THEN POLISH_MONTHS[tok.s] ELSE MonthOf(now)

\* re.search(r'(\d+)\s+(\w+)\s+(\d{4})', date_part): index of the leftmost match, 0 if none
SearchDMY(date_part) ==
    LET hits == {i \in 1..(Len(date_part) - 2) :
                    /\ EndsInDigits(date_part[i])
                    /\ WholeWord(date_part[i + 1])
                    /\ FourDigits(date_part[i + 2])}
    IN IF hits = {} THEN 0 ELSE CHOOSE i \in hits : \A j \in hits : i <= j

\* re.search(r'(\d+)\s+(\w+)(?:\s+(\d{4}))?', date_str): index of the leftmost match, 0 if none
SearchDM(date_str) ==
    LET hits == {i \in 1..(Len(date_str) - 1) : EndsInDigits(date_str[i])}
    IN IF hits = {} THEN 0 ELSE CHOOSE i \in hits : \A j \in hits : i <= j

\* match.group(3) of SearchDM's match at i: 0 when the group did not take part
YearGroup(date_str, i) ==
    IF /\ i + 2 <= Len(date_str)
       /\ WholeWord(date_str[i + 1])
       /\ FourDigits(date_str[i + 2])
    THEN date_str[i + 2].a ELSE 0

\* re.search(r'(\d{1,2}):(\d{1,2})', date_str): index of the first "H:M", 0 if none
SearchTime(date_str) ==
    LET hits == {i \in 1..Len(date_str) : date_str[i].k = "time"}
    IN IF hits = {} THEN 0 ELSE CHOOSE i \in hits : \A j \in hits : i <= j

(***************************************************************************)
(* parse_polish_date                                                       *)
(***************************************************************************)
Returned(v) == [raised |-> FALSE, v |-> v]
Raised == [raised |-> TRUE, v |-> 0]

\* variant of ParseToday: a time later than now is left on today's date
ParseToday_same_day(date_str, now) ==
    LET tp == TimePart(SplitAfter(date_str, "dzisiaj o"))
        pub_date == replace(now, tp.h, tp.mi)
    IN IF ~tp.ok \/ ~pub_date.ok THEN Raised
       ELSE Returned(now - pub_date.t)

\* "dzisiaj o HH:MM"
ParseToday(date_str, now) ==
    LET tp == TimePart(SplitAfter(date_str, "dzisiaj o"))
        pub_date == replace(now, tp.h, tp.mi)
    IN IF ~tp.ok \/ ~pub_date.ok THEN Raised
       ELSE IF pub_date.t > now THEN Returned(now - (pub_date.t - 1440))
       ELSE Returned(now - pub_date.t)

\* "wczoraj o HH:MM"
ParseYesterday(date_str, now) ==
    LET tp == TimePart(SplitAfter(date_str, "wczoraj o"))
        pub_date == replace(now - 1440, tp.h, tp.mi)
    IN IF ~tp.ok \/ ~pub_date.ok THEN Raised
       ELSE Returned(now - pub_date.t)

\* "odswiezono dnia DD miesiaca YYYY"
ParseRefreshed(date_str, now) ==
    LET date_part == SplitAfter(date_str,
                        IF Contains(date_str, "odswiezono dnia")
                        THEN "odswiezono dnia" ELSE "odswiezono")
        i == SearchDMY(date_part)
    IN IF i = 0 THEN Returned(INF)
       ELSE LET day == DigitsOf(date_part[i])
                month == MonthGet(date_part[i + 1], now)
                year == date_part[i + 2].a
                pub_date == datetime(year, month, day, 0, 0)
            IN IF ~pub_date.ok THEN Raised ELSE Returned(now - pub_date.t)

\* "DD miesiaca [YYYY] [HH:MM]"
ParseMonth(date_str, now) ==
    LET i == SearchDM(date_str) IN
    IF i = 0 THEN Returned(INF)
    ELSE LET day == DigitsOf(date_str[i])
             group3 == YearGroup(date_str, i)
             year == IF group3 # 0 THEN group3 ELSE YearOf(now)
             month == MonthGet(date_str[i + 1], now)
             tm == SearchTime(date_str)
             pub_date == IF tm # 0
                         THEN datetime(year, month, day, date_str[tm].a, date_str[tm].b)
                         ELSE datetime(year, month, day, 0, 0)
             last_year == datetime(YearOf(now) - 1, month, day, 0, 0)
         IN IF ~pub_date.ok THEN Raised
            ELSE IF pub_date.t > now /\ group3 = 0
            THEN (IF ~last_year.ok THEN Raised ELSE Returned(now - last_year.t))
            ELSE Returned(now - pub_date.t)

\* variant of ParseBody: a grammar that raises hands over to the day-month grammar
ParseBody_cascade(date_str, now) ==
    IF Contains(date_str, "dzisiaj o") /\ ~ParseToday(date_str, now).raised
    THEN ParseToday(date_str, now)
    ELSE IF Contains(date_str, "wczoraj o") /\ ~ParseYesterday(date_str, now).raised
    THEN ParseYesterday(date_str, now)
    ELSE IF \E j \in 1..Len(date_str) :
                date_str[j].k = "word" /\ date_str[j].s \in DOMAIN POLISH_MONTHS
    THEN ParseMonth(date_str, now)
    ELSE Returned(INF)

\* the body of the try: the first grammar whose marker occurs decides
ParseBody(date_str, now) ==
    IF Contains(date_str, "dzisiaj o") THEN ParseToday(date_str, now)
    ELSE IF Contains(date_str, "wczoraj o") THEN ParseYesterday(date_str, now)
    ELSE IF Contains(date_str, "odswiezono dnia") \/ Contains(date_str, "odswiezono")
    THEN ParseRefreshed(date_str, now)
    ELSE IF \E j \in 1..Len(date_str) :
                date_str[j].k = "word" /\ date_str[j].s \in DOMAIN POLISH_MONTHS
    THEN ParseMonth(date_str, now)
    ELSE Returned(INF)

\* except Exception: return float('inf')
Caught(r) == IF r.raised THEN Returned(INF) ELSE r

\* the whole function: "if not date_str", then try ... except Exception
parse_polish_date(date_str, now) ==
    IF date_str = << >> THEN Returned(INF)
    ELSE Caught(ParseBody(date_str, now))

(***************************************************************************)
(* Bounds of the model                                                     *)
(***************************************************************************)
\* cards of a listing that show ads of Links; the cards after them are old
\* ads, at the first of which the iteration ends (EARLY_EXIT_ON_OLD)
MaxCards == 1
\* clock advances in one behaviour
MaxTicks == 2
\* tokens of a date phrase handed to the parser on its own
MaxTokens == 4
\* cards in a listing of the single-source scans
MaxShown == 5

\* the cards a listing page shows at most when the calls of the store may fail
MaxFailShown == 2
\* the seconds a cycle takes at most
MaxElapsed == 12
\* the chats an ad is delivered to
MaxChats == 3
\* the Telegram users that write to the bot
MaxUsers == 3

(***************************************************************************)
(* Ads, links, listings                                                    *)
(***************************************************************************)
Week == 7 * 1440

\* the clock at the first start: 2025-03-10 12:00
T0 == Minutes(2025, 3, 10, 12, 0)

\* the links of one ad (one ID token) in two URL forms
Links ==
    { [host |-> "www.olx.pl", slug |-> "rower", id |-> "ID1"],
      [host |-> "m.olx.pl", slug |-> "rower", id |-> "ID1"] }

NoLink == [host |-> "", slug |-> "", id |-> ""]

\* re.search(r'ID([a-zA-Z0-9]+)', url): the ID token of the URL
extract_ad_id_from_url(link) == link.id

\* the title is read from the URL's path: the part before "-ID"
extract_title_from_url(link) == link.slug

AdIds == {extract_ad_id_from_url(l) : l \in Links}

\* the tracked sources
Sources == {1, 2}
TrackedUrl(s) == [domain |-> "olx.pl", search |-> s]
is_otomoto_url(url) == url.domain = "otomoto.pl"

\* date phrases a card can show: a time of today, or no date element
PhToday == << Mark("dzisiaj o"), Time(11, 55) >>
ScanPhrases == { PhToday, << >> }

\* other phrases: a time of yesterday, and a text no grammar recognises
PhYesterday == <<Mark("wczoraj o"), Time(11, 55)>>
PhUnknown == <<Word("xyz")>>

Cards == [link : Links, date : ScanPhrases, promoted : BOOLEAN]

RECURSIVE SeqsUpTo(_, _)
SeqsUpTo(S, n) ==
    IF n = 0 THEN { << >> }
    ELSE LET shorter == SeqsUpTo(S, n - 1)
         IN shorter \cup { Append(q, x) : q \in {r \in shorter : Len(r) = n - 1}, x \in S }

Listings == SeqsUpTo(Cards, MaxCards)

(***************************************************************************)
(* Delivery: send_telegram_async and send_telegram_message_with_retry      *)
(***************************************************************************)
\* the chats configured in CHAT_IDS
CHAT_IDS == 1..MaxChats

\* the way one call of bot.send_message / bot.send_photo ends: it returns, it
\* raises an error whose text names telegram, socket or connection, or it
\* raises another error
Outcomes == {"ok", "telegram", "other"}

\* result: how send_telegram_message_with_retry has ended for a chat;
\* attempts: the calls of bot.send_* made for a chat; last: the outcome of
\* the last call; wait_time: the last sleep between two attempts
IdleDelivery ==
    [pc |-> "idle", chat |-> 0, attempt |-> 0, wait_time |-> 0, last |-> "none",
     result |-> [c \in CHAT_IDS |-> "none"],
     attempts |-> [c \in CHAT_IDS |-> 0]]


\* variant of retry_wait: the same pause before every retry
retry_wait_flat(attempt) == retry_delay

\* wait_time = retry_delay * (attempt + 1)
retry_wait(attempt) == retry_delay * (attempt + 1)

\* the for loop over CHAT_IDS goes on with the next chat
NextChat(t) ==
    IF t.chat < MaxChats
    THEN [t EXCEPT !.chat = @ + 1, !.attempt = 0, !.pc = "attempt"]
    ELSE [t EXCEPT !.pc = "done"]

\* variant of ChatRaised: the error leaves the for loop
ChatRaised_abort(t) == [t EXCEPT !.result[t.chat] = "raised", !.pc = "done"]

\* send_telegram_message_with_retry has raised: the except inside the for
\* loop logs the error
ChatRaised(t) == NextChat([t EXCEPT !.result[t.chat] = "raised"])

\* one pass of the for loop of send_telegram_message_with_retry
Attempted(t, outcome) ==
    IF outcome = "ok"
    THEN NextChat([t EXCEPT !.result[t.chat] = "sent"])
    ELSE IF outcome # "telegram" \/ t.attempt = max_retries - 1
    THEN ChatRaised(t)
    ELSE [t EXCEPT !.pc = "sleep", !.wait_time = retry_wait(t.attempt)]

(***************************************************************************)
(* Threads: the scans of quick_check_all_urls run in a pool of threads,    *)
(* each calling get_cached_ad_age and send_to_telegram                     *)
(***************************************************************************)
ScanThreads == {1, 2}

\* no thread is inside get_cached_ad_age
IdleCall == [pc |-> "idle", ad_id |-> 0, k |-> 0, entries_to_remove |-> << >>]
AgeIdle == [t \in ScanThreads |-> IdleCall]

\* lock = Lock(): nobody holds it
NoHolder == 0

\* a scan thread between two pages, and no delivery thread of its ads running
IdleSend == [pc |-> "idle", delivery |-> "none", attempt |-> 0]
SendsIdle == [t \in ScanThreads |-> IdleSend]

(***************************************************************************)
(* Bot commands: is_admin and the list of tracked URLs                     *)
(***************************************************************************)
\* Python values: the int n and the str of its decimal digits; an int and a
\* str are never equal
PyInt(n) == [type |-> "int", v |-> n]
PyStr(n) == [type |-> "str", v |-> n]
str(x) == [type |-> "str", v |-> x.v]
int(x) == [type |-> "int", v |-> x.v]

\* the Telegram users: their ids
Users == 1..MaxUsers

\* env_loader: ADMIN_IDS when the environment names the users in S:
\* split(",") gives strs and the list comprehension makes ints of them
env_ADMIN_IDS(S) == { int(PyStr(n)) : n \in S }

\* user_id_str = str(user_id); return user_id_str in ADMIN_IDS
is_admin(admins, user_id) == str(user_id) \in admins

\* a URL as the pieces of its text
UrlOlx == << "https://", "www.", "olx.pl", "/cars" >>
UrlRef == << "https://", "example.com", "/?ref=", "otomoto.pl" >>
UrlBare == << "www.", "olx.pl", "/cars" >>
UrlElse == << "https://", "example.com", "/cars" >>
TypedUrls == { UrlOlx, UrlRef, UrlBare, UrlElse }

\* url.startswith(prefix) and needle in url
startswith(url, prefix) == url # << >> /\ url[1] = prefix
UrlContains(url, needle) == \E i \in DOMAIN url : url[i] = needle

\* the two checks of process_new_url
Validated(url) ==
    /\ startswith(url, "http://") \/ startswith(url, "https://")
    /\ UrlContains(url, "olx.pl") \/ UrlContains(url, "otomoto.pl")

Range(q) == { q[i] : i \in DOMAIN q }

\* urls.pop(index), index counted from 0
Popped(q, index) ==
    [i \in 1..(Len(q) - 1) |-> IF i <= index THEN q[i] ELSE q[i + 1]]

\* TeleBot runs the handlers in its pool of worker threads
Workers == {1, 2}

IdleJob == [pc |-> "idle", url |-> << >>, index |-> 0, shown |-> << >>, urls |-> << >>]

Answer(user, cmd, reply, shown, removed) ==
    [user |-> user, cmd |-> cmd, reply |-> reply, shown |-> shown, removed |-> removed]

NoAnswer == Answer(0, "none", "none", << >>, << >>)

BotIdle ==
    /\ urls_file = << >>
    /\ menu = << >>
    /\ jobs = [w \in Workers |-> IdleJob]
    /\ answer = NoAnswer

SideIdle ==
    /\ tg = IdleDelivery
    /\ ADMIN_IDS = env_ADMIN_IDS({1})
    /\ BotIdle
    /\ age_calls = AgeIdle
    /\ lock_held = NoHolder
    /\ sends = SendsIdle

BotFrame ==
    UNCHANGED <<clock, ticks, main_pc, db, last_cleanup, cache, scan, handed,
                rehanded, undelivered, found_fresh, tg, ADMIN_IDS, age_calls,
                lock_held, sends, ever_sent, ret, parse_in, parse_out>>

\* process_new_url up to load_urls: the checks, the list is read
ProcessNewUrlLoad(w, user, url) ==
    /\ jobs[w].pc = "idle"
    /\ IF ~Validated(url)
       THEN /\ answer' = Answer(user, "addurl", "rejected", << >>, << >>)
            /\ jobs' = jobs
       ELSE IF url \in Range(urls_file)
       THEN /\ answer' = Answer(user, "addurl", "already tracked", << >>, << >>)
            /\ jobs' = jobs
       ELSE /\ answer' = answer
            /\ jobs' = [jobs EXCEPT ![w] =
                    [IdleJob EXCEPT !.pc = "add", !.url = url, !.urls = urls_file]]
    /\ UNCHANGED <<urls_file, menu>>
    /\ BotFrame

\* process_new_url: urls.append(url) and save_urls(urls)
ProcessNewUrlSave(w) ==
    /\ jobs[w].pc = "add"
    /\ urls_file' = Append(jobs[w].urls, jobs[w].url)
    /\ answer' = Answer(0, "addurl", "added", << >>, << >>)
    /\ jobs' = [jobs EXCEPT ![w] = IdleJob]
    /\ UNCHANGED menu
    /\ BotFrame

\* delete_url and the "delurl" button: the list is read and shown with one
\* button del_i for each URL
ShowDeleteMenu(user) ==
    /\ IF urls_file = << >>
       THEN /\ answer' = Answer(user, "delurl", "nothing tracked", << >>, << >>)
            /\ menu' = menu
       ELSE /\ answer' = Answer(user, "delurl", "menu", << >>, << >>)
            /\ menu' = urls_file
    /\ UNCHANGED <<urls_file, jobs>>
    /\ BotFrame

\* callback_handler for the button del_index of the menu: the list is read
\* and the index is checked against it
DeleteLoad(w, user, index) ==
    /\ jobs[w].pc = "idle"
    /\ index \in 0..(Len(menu) - 1)
    /\ IF index < Len(urls_file)
       THEN /\ answer' = answer
            /\ jobs' = [jobs EXCEPT ![w] =
                    [IdleJob EXCEPT !.pc = "del", !.index = index,
                                    !.shown = menu[index + 1], !.urls = urls_file]]
       ELSE /\ answer' = Answer(user, "del", "invalid index", menu[index + 1], << >>)
            /\ jobs' = jobs
    /\ UNCHANGED <<urls_file, menu>>
    /\ BotFrame

\* callback_handler: removed_url = urls.pop(index) and save_urls(urls)
DeleteSave(w) ==
    /\ jobs[w].pc = "del"
    /\ urls_file' = Popped(jobs[w].urls, jobs[w].index)
    /\ answer' = Answer(0, "del", "removed", jobs[w].shown,
                      jobs[w].urls[jobs[w].index + 1])
    /\ jobs' = [jobs EXCEPT ![w] = IdleJob]
    /\ UNCHANGED menu
    /\ BotFrame

\* the reply of every handler to a user for whom is_admin gives False
Refused(user, cmd) ==
    /\ answer' = Answer(user, cmd, "refused", << >>, << >>)
    /\ UNCHANGED <<urls_file, menu, jobs>>
    /\ BotFrame

\* the same in callback_handler, by answer_callback_query
RefusedQuery(user, data) ==
    /\ answer' = Answer(user, data, "refused query", << >>, << >>)
    /\ UNCHANGED <<urls_file, menu, jobs>>
    /\ BotFrame

\* /addurl with a URL
add_url(w, user, url) ==
    IF ~is_admin(ADMIN_IDS, PyInt(user))
    THEN jobs[w].pc = "idle" /\ Refused(user, "addurl")
    ELSE ProcessNewUrlLoad(w, user, url)

\* /listurl
list_urls(user) ==
    IF ~is_admin(ADMIN_IDS, PyInt(user))
    THEN Refused(user, "listurl")
    ELSE /\ answer' = Answer(user, "listurl",
                             IF urls_file = << >> THEN "nothing tracked" ELSE "list",
                             << >>, << >>)
         /\ UNCHANGED <<urls_file, menu, jobs>>
         /\ BotFrame

\* /delurl
delete_url(user) ==
    IF ~is_admin(ADMIN_IDS, PyInt(user))
    THEN Refused(user, "delurl")
    ELSE ShowDeleteMenu(user)

\* a button of the admin menu, which main() sends to every id in ADMIN_IDS
\* when it starts
MenuButtons == {"listurl", "delurl"}

callback_handler(user, data) ==
    /\ PyInt(user) \in ADMIN_IDS
    /\ IF ~is_admin(ADMIN_IDS, PyInt(user))
       THEN RefusedQuery(user, data)
       ELSE IF data = "delurl"
       THEN ShowDeleteMenu(user)
       ELSE /\ answer' = Answer(user, "listurl",
                             IF urls_file = << >> THEN "nothing tracked" ELSE "list",
                             << >>, << >>)
            /\ UNCHANGED <<urls_file, menu, jobs>>
            /\ BotFrame

(***************************************************************************)
(* Dedup store: table ads (primary key link) and the last_cleanup setting  *)
(***************************************************************************)
NoRow ==
    [present |-> FALSE, title |-> "", ad_id |-> "", site |-> "", date_found |-> 0,
     date_published |-> << >>, expiry_date |-> 0, sent_to_telegram |-> FALSE]

\* how a store call can fail: not at all, in a statement after the connection
\* is open, or in sqlite3.connect itself (conn is then unbound in the handler)
FailKinds == {"ok", "op", "connect"}

\* faulty variants of the store functions, which the properties at the end of
\* the module have to tell apart from the functions themselves:
\* INSERT OR REPLACE in place of SELECT, then UPDATE or INSERT
add_ad_to_db_replace(d, link, title, site, ad_id, date_published, now, fail) ==
    IF fail = "connect" THEN [db |-> d, raised |-> TRUE, a |-> FALSE, b |-> FALSE]
    ELSE IF fail = "op" THEN [db |-> d, raised |-> FALSE, a |-> FALSE, b |-> FALSE]
    ELSE [db |-> [d EXCEPT ![link] =
                    [present |-> TRUE, title |-> title, ad_id |-> ad_id, site |-> site,
                     date_found |-> now, date_published |-> date_published,
                     expiry_date |-> now + Week, sent_to_telegram |-> FALSE]],
          raised |-> FALSE, a |-> TRUE, b |-> FALSE]

\* the UPDATE of an existing row sets site and date_published as well
add_ad_to_db_overwrite(d, link, title, site, ad_id, date_published, now, fail) ==
    IF fail = "connect" THEN [db |-> d, raised |-> TRUE, a |-> FALSE, b |-> FALSE]
    ELSE IF fail = "op" THEN [db |-> d, raised |-> FALSE, a |-> FALSE, b |-> FALSE]
    ELSE IF d[link].present
    THEN [db |-> [d EXCEPT ![link].expiry_date = now + Week,
                           ![link].site = site,
                           ![link].date_published = date_published],
          raised |-> FALSE, a |-> FALSE, b |-> d[link].sent_to_telegram]
    ELSE [db |-> [d EXCEPT ![link] =
                    [present |-> TRUE, title |-> title, ad_id |-> ad_id, site |-> site,
                     date_found |-> now, date_published |-> date_published,
                     expiry_date |-> now + Week, sent_to_telegram |-> FALSE]],
          raised |-> FALSE, a |-> TRUE, b |-> FALSE]

\* the UPDATE has no WHERE clause
mark_ad_as_sent_all(d, link, fail) ==
    IF fail = "connect" THEN [db |-> d, raised |-> TRUE, a |-> FALSE]
    ELSE IF fail = "op" THEN [db |-> d, raised |-> FALSE, a |-> FALSE]
    ELSE [db |-> [l \in DOMAIN d |-> IF d[l].present
                                  THEN [d[l] EXCEPT !.sent_to_telegram = TRUE]
                                  ELSE d[l]],
          raised |-> FALSE, a |-> TRUE]

add_ad_to_db(d, link, title, site, ad_id, date_published, now, fail) ==
    IF fail = "connect" THEN [db |-> d, raised |-> TRUE, a |-> FALSE, b |-> FALSE]
    ELSE IF fail = "op" THEN [db |-> d, raised |-> FALSE, a |-> FALSE, b |-> FALSE]
    ELSE IF d[link].present
    THEN [db |-> [d EXCEPT ![link].expiry_date = now + Week],
          raised |-> FALSE, a |-> FALSE, b |-> d[link].sent_to_telegram]
    ELSE [db |-> [d EXCEPT ![link] =
                    [present |-> TRUE, title |-> title, ad_id |-> ad_id, site |-> site,
                     date_found |-> now, date_published |-> date_published,
                     expiry_date |-> now + Week, sent_to_telegram |-> FALSE]],
          raised |-> FALSE, a |-> TRUE, b |-> FALSE]

mark_ad_as_sent(d, link, fail) ==
    IF fail = "connect" THEN [db |-> d, raised |-> TRUE, a |-> FALSE]
    ELSE IF fail = "op" THEN [db |-> d, raised |-> FALSE, a |-> FALSE]
    ELSE [db |-> IF d[link].present
                 THEN [d EXCEPT ![link].sent_to_telegram = TRUE] ELSE d,
          raised |-> FALSE, a |-> TRUE]

\* a missing row gives None, which the caller reads as "not sent"
check_ad_sent(d, link, fail) ==
    IF fail = "connect" THEN [raised |-> TRUE, a |-> FALSE]
    ELSE IF fail = "op" THEN [raised |-> FALSE, a |-> FALSE]
    ELSE [raised |-> FALSE, a |-> d[link].present /\ d[link].sent_to_telegram]

\* no try/except: every failure is raised to the caller
check_ad_exists(d, link, fail) ==
    IF fail # "ok" THEN [raised |-> TRUE, a |-> FALSE]
    ELSE [raised |-> FALSE, a |-> d[link].present]

get_unsent_ads(d, fail) ==
    IF fail = "connect" THEN [raised |-> TRUE, a |-> {}]
    ELSE IF fail = "op" THEN [raised |-> FALSE, a |-> {}]
    ELSE [raised |-> FALSE,
          a |-> {l \in DOMAIN d : d[l].present /\ ~d[l].sent_to_telegram}]

\* cursor.execute("VACUUM") after the DELETE and the UPDATE have opened a
\* transaction: sqlite3 refuses it ("cannot VACUUM from within a transaction")
VacuumRaises == TRUE

\* the DELETE and UPDATE run, VACUUM raises before conn.commit(), and the
\* connection is dropped with its transaction rolled back
cleanup_old_ads(d, last, now) ==
    IF now - last < Week
    THEN [db |-> d, last_cleanup |-> last, raised |-> FALSE, a |-> FALSE]
    ELSE IF VacuumRaises
    THEN [db |-> d, last_cleanup |-> last, raised |-> TRUE, a |-> FALSE]
    ELSE [db |-> [l \in DOMAIN d |-> IF d[l].present /\ d[l].expiry_date < now
                                  THEN NoRow ELSE d[l]],
          last_cleanup |-> now, raised |-> FALSE, a |-> TRUE]

(***************************************************************************)
(* Age cache: PUBLICATION_DATE_CACHE, ad_id -> minutes_ago, last_check_time *)
(* (the entry's date_str is stored and never read)                          *)
(***************************************************************************)
NoEntry == [present |-> FALSE, minutes_ago |-> 0, last_check_time |-> 0]
EmptyCache == [i \in AdIds |-> NoEntry]

\* float addition: inf + x = inf
Plus(x, y) == IF x = INF THEN INF ELSE x + y

\* the identities PUBLICATION_DATE_CACHE holds
Held(c) == {i \in DOMAIN c : c[i].present}

\* the place of an entry in sorted(..., key=last_check_time): the number of
\* entries checked before it (entries of a full cache are checked at
\* different times)
Rank(c, i) ==
    Cardinality({j \in Held(c) : c[j].last_check_time < c[i].last_check_time})

\* variant of Evicted: the sort is descending, the most recent entries go
Evicted_newest(c) ==
    IF Cardinality(Held(c)) <= MAX_CACHE_SIZE THEN c
    ELSE [i \in DOMAIN c |->
            IF c[i].present
               /\ Cardinality({j \in Held(c) :
                                 c[j].last_check_time > c[i].last_check_time})
                      < (MAX_CACHE_SIZE * 2) \div 10
            THEN NoEntry ELSE c[i]]

\* sorted by last_check_time, the first int(MAX_CACHE_SIZE * 0.2) are deleted
Evicted(c) ==
    IF Cardinality(Held(c)) <= MAX_CACHE_SIZE THEN c
    ELSE [i \in DOMAIN c |->
            IF c[i].present /\ Rank(c, i) < (MAX_CACHE_SIZE * 2) \div 10
            THEN NoEntry ELSE c[i]]

\* "Save to cache": the computed age is stored and returned
SaveToCache(c, ad_id, minutes_ago, now) ==
    [cache |-> Evicted([c EXCEPT ![ad_id] =
                    [present |-> TRUE, minutes_ago |-> minutes_ago,
                     last_check_time |-> now]]),
     age |-> minutes_ago]

\* variant of get_cached_ad_age: an entry of exactly 30 minutes is still used
get_cached_ad_age_stale(c, ad_id, date_str, now) ==
    IF c[ad_id].present /\ now - c[ad_id].last_check_time <= 30
    THEN [cache |-> c,
          age |-> Plus(c[ad_id].minutes_ago, now - c[ad_id].last_check_time)]
    ELSE SaveToCache(c, ad_id, parse_polish_date(date_str, now).v, now)

get_cached_ad_age(c, ad_id, date_str, now) ==
    IF c[ad_id].present /\ now - c[ad_id].last_check_time < 30
    THEN [cache |-> c,
          age |-> Plus(c[ad_id].minutes_ago, now - c[ad_id].last_check_time)]
    ELSE SaveToCache(c, ad_id, parse_polish_date(date_str, now).v, now)

\* get_cached_ad_age statement by statement, as a scan thread runs it while
\* another scan thread is inside it too. The function takes no lock.
CacheFrame ==
    UNCHANGED <<clock, ticks, main_pc, db, last_cleanup, scan, handed, rehanded,
                undelivered, found_fresh, tg, bot_vars, lock_held, sends,
                ever_sent, ret, parse_in, parse_out>>

\* sorted(PUBLICATION_DATE_CACHE.items(), key=...)[:int(MAX_CACHE_SIZE * 0.2)]
\* rank: the place of every entry in the sorted list
FirstOfSorted(rank) ==
    [k \in 1..((MAX_CACHE_SIZE * 2) \div 10) |->
        CHOOSE i \in DOMAIN rank : rank[i] = k - 1]

\* "if ad_id and ad_id in PUBLICATION_DATE_CACHE"
CacheCall(t, ad_id) ==
    /\ age_calls[t].pc = "idle"
    /\ age_calls' = [age_calls EXCEPT ![t] =
            [IdleCall EXCEPT !.ad_id = ad_id,
                             !.pc = IF cache[ad_id].present THEN "found" ELSE "parsed"]]
    /\ UNCHANGED cache
    /\ CacheFrame

\* "cache_entry = PUBLICATION_DATE_CACHE[ad_id]" and the test of its age
CacheRead(t) ==
    /\ age_calls[t].pc = "found"
    /\ age_calls' = [age_calls EXCEPT ![t].pc =
            IF ~cache[age_calls[t].ad_id].present THEN "KeyError"
            ELSE IF clock - cache[age_calls[t].ad_id].last_check_time < 30
            THEN "done"
            ELSE "parsed"]
    /\ UNCHANGED cache
    /\ CacheFrame

\* "PUBLICATION_DATE_CACHE[ad_id] = {...}"
CacheStore(t) ==
    /\ age_calls[t].pc = "parsed"
    /\ cache' = [cache EXCEPT ![age_calls[t].ad_id] =
            [present |-> TRUE, minutes_ago |-> parse_polish_date(PhToday, clock).v,
             last_check_time |-> clock]]
    /\ age_calls' = [age_calls EXCEPT ![t].pc = "stored"]
    /\ CacheFrame

\* "if len(PUBLICATION_DATE_CACHE) > MAX_CACHE_SIZE" and the sort
CacheSort(t) ==
    /\ age_calls[t].pc = "stored"
    /\ age_calls' = [age_calls EXCEPT ![t] =
            IF Cardinality(Held(cache)) > MAX_CACHE_SIZE
            THEN [@ EXCEPT !.pc = "del", !.k = 1,
                           !.entries_to_remove =
                               FirstOfSorted([i \in Held(cache) |-> Rank(cache, i)])]
            ELSE [@ EXCEPT !.pc = "done"]]
    /\ UNCHANGED cache
    /\ CacheFrame

\* one pass of "for key, _ in entries_to_remove: del PUBLICATION_DATE_CACHE[key]"
CacheDel(t) ==
    /\ age_calls[t].pc = "del"
    /\ LET key == age_calls[t].entries_to_remove[age_calls[t].k]
       IN IF ~cache[key].present
          THEN /\ age_calls' = [age_calls EXCEPT ![t].pc = "KeyError"]
               /\ UNCHANGED cache
          ELSE /\ cache' = [cache EXCEPT ![key] = NoEntry]
               /\ age_calls' = [age_calls EXCEPT ![t] =
                    IF @.k = Len(@.entries_to_remove)
                    THEN [@ EXCEPT !.pc = "done"]
                    ELSE [@ EXCEPT !.k = @ + 1]]
    /\ CacheFrame

\* the dictionary extract_preview_data returns, got the result of
\* get_cached_ad_age; minutes_ago is set only when the card shows a date
PreviewData(card, url, c, got) ==
    [link |-> card.link,
     title |-> extract_title_from_url(card.link),
     ad_id |-> extract_ad_id_from_url(card.link),
     publication_date |-> card.date,
     site |-> IF is_otomoto_url(url) THEN "OTOMOTO" ELSE "OLX",
     has_age |-> card.date # << >>,
     minutes_ago |-> IF card.date # << >> THEN got.age ELSE INF,
     cache |-> IF card.date # << >> THEN got.cache ELSE c]

extract_preview_data(card, url, c, now) ==
    PreviewData(card, url, c,
        get_cached_ad_age(c, extract_ad_id_from_url(card.link), card.date, now))

\* send_to_telegram: mark under the lock, then start the delivery thread; a
\* mark that returns False is only logged, a mark that raises skips the thread
send_to_telegram(d, link, fail) ==
    LET m == mark_ad_as_sent(d, link, fail)
    IN IF m.raised THEN [db |-> d, dispatched |-> FALSE, a |-> FALSE, marked |-> FALSE]
       ELSE [db |-> m.db, dispatched |-> TRUE, a |-> TRUE, marked |-> m.a]

\* variant of UnsentPass (below): the window of the scans, not twice that
UnsentPass_single_window(st, link, got, sent, mark) ==
    IF st.db[link].date_published # << >>
    THEN IF got.age <= MAX_AD_AGE_MINUTES
         THEN [db |-> sent.db, cache |-> got.cache,
               out |-> IF sent.dispatched THEN st.out \cup {link} ELSE st.out,
               raised |-> FALSE]
         ELSE [db |-> mark.db, cache |-> got.cache, out |-> st.out,
               raised |-> mark.raised]
    ELSE [db |-> sent.db, cache |-> st.cache,
          out |-> IF sent.dispatched THEN st.out \cup {link} ELSE st.out,
          raised |-> FALSE]

\* one pass of the loop of process_unsent_ads, for the row of link;
\* st = [db, cache, out, raised], out the links handed to the delivery thread;
\* got, sent, mark: what get_cached_ad_age, send_to_telegram and
\* mark_ad_as_sent give for the row in st
UnsentPass(st, link, got, sent, mark) ==
    IF st.db[link].date_published # << >>
    THEN IF got.age <= MAX_AD_AGE_MINUTES * 2
         THEN [db |-> sent.db, cache |-> got.cache,
               out |-> IF sent.dispatched THEN st.out \cup {link} ELSE st.out,
               raised |-> FALSE]
         ELSE [db |-> mark.db, cache |-> got.cache, out |-> st.out,
               raised |-> mark.raised]
    ELSE [db |-> sent.db, cache |-> st.cache,
          out |-> IF sent.dispatched THEN st.out \cup {link} ELSE st.out,
          raised |-> FALSE]

UnsentAd(st, link, fail, now) ==
    UnsentPass(st, link,
        get_cached_ad_age(st.cache, st.db[link].ad_id, st.db[link].date_published, now),
        send_to_telegram(st.db, link, fail),
        mark_ad_as_sent(st.db, link, fail))

\* the loop of process_unsent_ads over the unsent rows in the order given
RECURSIVE UnsentLoop(_, _, _, _)
UnsentLoop(order, st, fails, now) ==
    IF order = << >> \/ st.raised THEN st
    ELSE UnsentLoop(Tail(order), UnsentAd(st, Head(order), fails[Head(order)], now),
                    fails, now)

\* all orders in which the rows of a SELECT without ORDER BY can come
RECURSIVE Orders(_)
Orders(S) ==
    IF S = {} THEN { << >> }
    ELSE UNION { { <<x>> \o q : q \in Orders(S \ {x}) } : x \in S }

process_unsent_ads(d, c, order, fails, now) ==
    UnsentLoop(order, [db |-> d, cache |-> c, out |-> {}, raised |-> FALSE], fails, now)

(***************************************************************************)
(* quick_check_ads: one scan of one source                                 *)
(***************************************************************************)
NoCur == [link |-> NoLink, date |-> << >>, minutes_ago |-> 0]

\* the locals of quick_check_ads: all_cards is the listing fetched (kept
\* while the card loop runs) and cards what is left of cards_to_process;
\* sent_links notes the links for which this scan's try_send_from_preview
\* has started a delivery, promo_evaluated counts the promoted cards whose
\* preview the card loop has extracted
IdleScan ==
    [pc |-> "idle", all_cards |-> << >>, cards |-> << >>, cur |-> NoCur,
     consecutive_old_count |-> 0, promo_processed |-> 0, fresh_found |-> FALSE,
     sent_links |-> {}, promo_evaluated |-> 0]

\* ret: the store call the last step has made: its link, the row of the link
\* before the call, and what it returned (a, b: the values returned, raised:
\* it raised instead); NoRet when the step made no such call
Ret(op, link, before, raised, a, b) ==
    [op |-> op, link |-> link, before |-> before, raised |-> raised, a |-> a, b |-> b]

NoRet == Ret("none", NoLink, NoRow, FALSE, FALSE, FALSE)

\* ret after a call of get_cached_ad_age on its own: the arguments and the
\* age returned
AgeRet(ad_id, date_str, age) ==
    [op |-> "get_cached_ad_age", link |-> NoLink, before |-> NoRow,
     raised |-> FALSE, a |-> FALSE, b |-> FALSE,
     ad_id |-> ad_id, date_str |-> date_str, age |-> age]

\* the loop over the first min(10, len) cards that looks for a fresh ad in the
\* positions the scan would skip; st = [cache, fresh_in_skipped], i from 0
\* variant of PreScanPass: a fresh card anywhere in the pre-scan counts
PreScanPass_any_position(st, i, preview) ==
    [cache |-> preview.cache,
     fresh_in_skipped |->
        \/ st.fresh_in_skipped
        \/ preview.minutes_ago <= MAX_AD_AGE_MINUTES]

PreScanPass(st, i, preview) ==
    [cache |-> preview.cache,
     fresh_in_skipped |->
        \/ st.fresh_in_skipped
        \/ (i < SKIP_FIRST_N_ADS /\ preview.minutes_ago <= MAX_AD_AGE_MINUTES)]

RECURSIVE PreScan(_, _, _, _, _)
PreScan(all_cards, i, st, url, t) ==
    IF i >= Len(all_cards) \/ i >= 10 THEN st
    ELSE PreScan(all_cards, i + 1,
            PreScanPass(st, i, extract_preview_data(all_cards[i + 1], url, st.cache, t)),
            url, t)

\* all_cards[skip_count:][:MAX_CARDS_TO_CHECK]
CardsToProcess(all_cards, skip_count) ==
    LET cards == SubSeq(all_cards, skip_count + 1, Len(all_cards))
    IN SubSeq(cards, 1, IF Len(cards) < MAX_CARDS_TO_CHECK THEN Len(cards)
                        ELSE MAX_CARDS_TO_CHECK)

\* the end of one pass of the card loop for a regular card: the counters, the
\* early exit, the next card
AfterCard(sc, sent, is_old) ==
    LET count == IF sent THEN 0
                 ELSE IF is_old THEN sc.consecutive_old_count + 1 ELSE 0
        stop == (EARLY_EXIT_ON_OLD /\ is_old) \/ count >= CONSECUTIVE_OLD_COUNT
        rest == Tail(sc.cards)
    IN [sc EXCEPT !.consecutive_old_count = count,
                  !.fresh_found = @ \/ sent,
                  !.cards = rest,
                  !.cur = NoCur,
                  !.all_cards = IF stop \/ rest = << >> THEN << >> ELSE @,
                  !.pc = IF stop \/ rest = << >> THEN "done" ELSE "cards"]

\* "continue" in the branch of a promoted card
NextCard(sc) ==
    LET rest == Tail(sc.cards)
    IN [sc EXCEPT !.cards = rest,
                  !.all_cards = IF rest = << >> THEN << >> ELSE @,
                  !.pc = IF rest = << >> THEN "done" ELSE "cards"]

\* the delivery thread of send_to_telegram has been started for these links
Hand(out) ==
    /\ handed' = handed \cup out
    /\ rehanded' = rehanded \cup (out \cap handed)

EverSent ==
    ever_sent' = ever_sent \cup {l \in DOMAIN db' : db'[l].present /\ db'[l].sent_to_telegram}

(***************************************************************************)
(* Actions.  K is the set of ways a store call may fail in the step.       *)
(***************************************************************************)
\* quick_check_ads up to the card loop: the page is fetched, the first cards
\* are pre-scanned, the cards to process are cut out
\* pre: what the pre-scan of all_cards has given
ScanCards(s, all_cards, pre) ==
    LET skip_count == IF pre.fresh_in_skipped THEN 0 ELSE SKIP_FIRST_N_ADS
        todo == CardsToProcess(all_cards, skip_count)
    IN /\ cache' = pre.cache
       /\ scan' = [scan EXCEPT ![s] =
              [IdleScan EXCEPT !.cards = todo,
                               !.all_cards = IF todo = << >> THEN << >> ELSE all_cards,
                               !.pc = IF todo = << >> THEN "done" ELSE "cards"]]

\* variant of PoolHasRoom: every submitted scan starts at once
PoolHasRoom_unbounded == TRUE

\* ThreadPoolExecutor(max_workers = min(MAX_PARALLEL_URLS, len(urls))): a
\* submitted quick_check_url starts when one of the workers is free
PoolHasRoom ==
    LET urls == DOMAIN scan
        max_workers == IF MAX_PARALLEL_URLS < Cardinality(urls)
                       THEN MAX_PARALLEL_URLS ELSE Cardinality(urls)
    IN Cardinality({s \in urls : scan[s].pc \notin {"idle", "done"}}) < max_workers

\* variant of PageLoadTimeout: the timeout ends the cycle loop
PageLoadTimeout_fatal(s) ==
    /\ main_pc = "scanning"
    /\ scan[s].pc = "idle"
    /\ PoolHasRoom
    /\ scan' = [scan EXCEPT ![s] = [IdleScan EXCEPT !.pc = "done"]]
    /\ ret' = Ret("wait_for_page_load", NoLink, NoRow, FALSE, FALSE, FALSE)
    /\ main_pc' = "down"
    /\ UNCHANGED <<clock, ticks, db, last_cleanup, cache, handed, rehanded,
                   ever_sent, undelivered, found_fresh, side, parse_in, parse_out>>

\* quick_check_ads of source s when wait_for_page_load gives False after
\* PAGE_LOAD_TIMEOUT: quick_check_ads and quick_check_url return False
PageLoadTimeout(s) ==
    /\ main_pc = "scanning"
    /\ scan[s].pc = "idle"
    /\ PoolHasRoom
    /\ scan' = [scan EXCEPT ![s] = [IdleScan EXCEPT !.pc = "done"]]
    /\ ret' = Ret("wait_for_page_load", NoLink, NoRow, FALSE, FALSE, FALSE)
    /\ UNCHANGED <<clock, ticks, main_pc, db, last_cleanup, cache, handed, rehanded,
                   ever_sent, undelivered, found_fresh, side, parse_in, parse_out>>

\* quick_check_ads of source s when the page shows one of the listings in L
ScanOf(s, L) ==
    /\ main_pc = "scanning"
    /\ scan[s].pc = "idle"
    /\ PoolHasRoom
    /\ \E all_cards \in L :
          ScanCards(s, all_cards,
              PreScan(all_cards, 0, [cache |-> cache, fresh_in_skipped |-> FALSE],
                      TrackedUrl(s), clock))
    /\ ret' = NoRet
    /\ UNCHANGED <<clock, ticks, main_pc, db, last_cleanup, handed, rehanded,
                   ever_sent, undelivered, found_fresh, side, parse_in, parse_out>>

\* the page fails to load, or it shows a listing (an empty one when the cards
\* fail to load)
ScanStart(s) ==
    \/ PageLoadTimeout(s)
    \/ ScanOf(s, Listings)

\* variant of RegularPreview: a card skipped as old or without an age is
\* recorded in the store all the same
RegularPreview_records_skipped(s, card, preview, exists) ==
    /\ cache' = preview.cache
    /\ db' = IF ~preview.has_age \/ preview.minutes_ago > MAX_AD_AGE_MINUTES
             THEN add_ad_to_db(db, card.link, extract_title_from_url(card.link),
                      "OLX", extract_ad_id_from_url(card.link), card.date,
                      clock, "ok").db
             ELSE db
    /\ ret' = IF preview.has_age /\ preview.minutes_ago <= MAX_AD_AGE_MINUTES
                 /\ exists.raised
              THEN Ret("check_ad_exists", card.link, db[card.link], TRUE, FALSE, FALSE)
              ELSE NoRet
    /\ scan' = [scan EXCEPT ![s] =
          IF ~preview.has_age \/ preview.minutes_ago > MAX_AD_AGE_MINUTES
          THEN AfterCard(@, FALSE, TRUE)
          ELSE IF exists.raised THEN AfterCard(@, FALSE, TRUE)
          ELSE [@ EXCEPT !.cur = [link |-> card.link, date |-> card.date,
                                  minutes_ago |-> preview.minutes_ago],
                         !.pc = IF exists.a THEN "check_sent" ELSE "add"]]

\* try_send_from_preview up to check_ad_exists
\* preview, exists: what extract_preview_data and check_ad_exists give
RegularPreview(s, card, preview, exists) ==
    /\ cache' = preview.cache
    /\ db' = db
    /\ ret' = IF preview.has_age /\ preview.minutes_ago <= MAX_AD_AGE_MINUTES
                 /\ exists.raised
              THEN Ret("check_ad_exists", card.link, db[card.link], TRUE, FALSE, FALSE)
              ELSE NoRet
    /\ scan' = [scan EXCEPT ![s] =
          IF ~preview.has_age \/ preview.minutes_ago > MAX_AD_AGE_MINUTES
          THEN AfterCard(@, FALSE, TRUE)
          ELSE IF exists.raised THEN AfterCard(@, FALSE, TRUE)
          ELSE [@ EXCEPT !.cur = [link |-> card.link, date |-> card.date,
                                  minutes_ago |-> preview.minutes_ago],
                         !.pc = IF exists.a THEN "check_sent" ELSE "add"]]

RegularCard(s, K) ==
    /\ scan[s].pc = "cards"
    /\ ~Head(scan[s].cards).promoted
    /\ \E fail \in K :
        RegularPreview(s, Head(scan[s].cards),
            extract_preview_data(Head(scan[s].cards), TrackedUrl(s), cache, clock),
            check_ad_exists(db, Head(scan[s].cards).link, fail))
    /\ UNCHANGED <<clock, ticks, main_pc, last_cleanup, handed, rehanded,
                   ever_sent, undelivered, found_fresh, side, parse_in, parse_out>>

\* try_send_from_preview: check_ad_sent for a link that has a row
CheckSent(s, K) ==
    /\ scan[s].pc = "check_sent"
    /\ \E fail \in K :
        LET was_sent == check_ad_sent(db, scan[s].cur.link, fail)
        IN /\ scan' = [scan EXCEPT ![s] =
                IF was_sent.raised THEN AfterCard(@, FALSE, TRUE)
                ELSE IF was_sent.a THEN AfterCard(@, FALSE, FALSE)
                ELSE [@ EXCEPT !.pc = "send"]]
           /\ ret' = IF was_sent.raised
                     THEN Ret("check_ad_sent", scan[s].cur.link,
                              db[scan[s].cur.link], TRUE, FALSE, FALSE)
                     ELSE NoRet
    /\ UNCHANGED <<clock, ticks, main_pc, db, last_cleanup, cache, handed, rehanded,
                   ever_sent, undelivered, found_fresh, side, parse_in, parse_out>>

\* try_send_from_preview: add_ad_to_db for a link that had no row
AddAd(s, K) ==
    /\ scan[s].pc = "add"
    /\ \E fail \in K :
        LET link == scan[s].cur.link
            added == add_ad_to_db(db, link, extract_title_from_url(link),
                        IF is_otomoto_url(TrackedUrl(s)) THEN "OTOMOTO" ELSE "OLX",
                        extract_ad_id_from_url(link), scan[s].cur.date, clock, fail)
        IN /\ db' = added.db
           /\ ret' = Ret("add_ad_to_db", link, db[link], added.raised, added.a, added.b)
           /\ scan' = [scan EXCEPT ![s] =
                IF added.raised THEN AfterCard(@, FALSE, TRUE)
                ELSE [@ EXCEPT !.pc = "send"]]
    /\ EverSent
    /\ UNCHANGED <<clock, ticks, main_pc, last_cleanup, cache, handed, rehanded,
                   undelivered, found_fresh, side, parse_in, parse_out>>

\* try_send_from_preview: send_to_telegram
Send(s, K) ==
    /\ scan[s].pc = "send"
    /\ \E fail \in K :
        LET link == scan[s].cur.link
            sent == send_to_telegram(db, link, fail)
        IN /\ db' = sent.db
           /\ ret' = Ret("mark_ad_as_sent", link, db[link], ~sent.dispatched, sent.marked, FALSE)
           /\ Hand(IF sent.dispatched THEN {link} ELSE {})
           /\ scan' = [scan EXCEPT ![s] =
                AfterCard([@ EXCEPT !.sent_links =
                              IF sent.dispatched THEN @ \cup {link} ELSE @],
                          sent.a, FALSE)]
    /\ EverSent
    /\ UNCHANGED <<clock, ticks, main_pc, last_cleanup, cache, undelivered, found_fresh, side, parse_in, parse_out>>

\* variant of PromotedPreview: a promoted card is sent whatever its age
PromotedPreview_any_age(s, card, preview, sent) ==
    LET skipped == scan[s].promo_processed >= MAX_PROMO_TO_CHECK
        fresh == ~skipped
    IN /\ cache' = IF skipped THEN cache ELSE preview.cache
       /\ db' = IF fresh THEN sent.db ELSE db
       /\ ret' = IF fresh
                 THEN Ret("mark_ad_as_sent", card.link, db[card.link],
                          ~sent.dispatched, sent.marked, FALSE)
                 ELSE NoRet
       /\ Hand(IF fresh /\ sent.dispatched THEN {card.link} ELSE {})
       /\ scan' = [scan EXCEPT ![s] =
            IF fresh /\ sent.a
            THEN NextCard([@ EXCEPT !.promo_processed = @ + 1,
                                    !.promo_evaluated = @ + 1,
                                    !.consecutive_old_count = 0,
                                    !.fresh_found = TRUE])
            ELSE IF skipped THEN NextCard(@)
            ELSE NextCard([@ EXCEPT !.promo_evaluated = @ + 1])]

\* the branch of the card loop for a promoted card
\* preview, sent: what extract_preview_data and send_to_telegram give
PromotedPreview(s, card, preview, sent) ==
    LET skipped == scan[s].promo_processed >= MAX_PROMO_TO_CHECK
        fresh == ~skipped /\ preview.minutes_ago <= MAX_AD_AGE_MINUTES
    IN /\ cache' = IF skipped THEN cache ELSE preview.cache
       /\ db' = IF fresh THEN sent.db ELSE db
       /\ ret' = IF fresh
                 THEN Ret("mark_ad_as_sent", card.link, db[card.link],
                          ~sent.dispatched, sent.marked, FALSE)
                 ELSE NoRet
       /\ Hand(IF fresh /\ sent.dispatched THEN {card.link} ELSE {})
       /\ scan' = [scan EXCEPT ![s] =
            IF fresh /\ sent.a
            THEN NextCard([@ EXCEPT !.promo_processed = @ + 1,
                                    !.promo_evaluated = @ + 1,
                                    !.consecutive_old_count = 0,
                                    !.fresh_found = TRUE])
            ELSE IF skipped THEN NextCard(@)
            ELSE NextCard([@ EXCEPT !.promo_evaluated = @ + 1])]

PromotedCard(s, K) ==
    /\ scan[s].pc = "cards"
    /\ Head(scan[s].cards).promoted
    /\ \E fail \in K :
        PromotedPreview(s, Head(scan[s].cards),
            extract_preview_data(Head(scan[s].cards), TrackedUrl(s), cache, clock),
            send_to_telegram(db, Head(scan[s].cards).link, fail))
    /\ EverSent
    /\ UNCHANGED <<clock, ticks, main_pc, last_cleanup, undelivered, found_fresh, side, parse_in, parse_out>>

\* main() up to the start of the bot thread: init_database inserts the
\* last_cleanup setting unless it is there, cleanup_old_ads runs; when that
\* raises, main() reports the crash and returns
Start ==
    /\ main_pc = "down"
    /\ LET last == IF last_cleanup.present THEN last_cleanup.value ELSE clock
           swept == cleanup_old_ads(db, last, clock)
       IN /\ db' = swept.db
          /\ last_cleanup' = [present |-> TRUE, value |-> swept.last_cleanup]
          /\ ret' = Ret("cleanup_old_ads", NoLink, NoRow, swept.raised, swept.a, FALSE)
          /\ main_pc' = IF swept.raised THEN "down" ELSE "recover"
    /\ EverSent
    /\ UNCHANGED <<clock, ticks, cache, scan, handed, rehanded, undelivered, found_fresh, side, parse_in, parse_out>>

\* process_unsent_ads, as main() and quick_check_all_urls call it
\* unsent, done: what get_unsent_ads and the loop over its rows give
Recovered(unsent, done, after_raise) ==
    /\ db' = done.db
    /\ cache' = IF unsent.raised \/ done.raised
                THEN (IF after_raise = "down" THEN EmptyCache ELSE done.cache)
                ELSE done.cache
    /\ Hand(done.out)
    /\ main_pc' = IF unsent.raised \/ done.raised THEN after_raise
                  ELSE IF after_raise = "down" THEN "cycle" ELSE "scanning"
    /\ found_fresh' = (/\ after_raise # "down"
                       /\ ~(unsent.raised \/ done.raised)
                       /\ done.out # {})

RecoverUnsent(K, after_raise) ==
    \E fail \in K :
        LET unsent == get_unsent_ads(db, fail)
        IN \E order \in Orders(unsent.a), fails \in [unsent.a -> K] :
            Recovered(unsent, process_unsent_ads(db, cache, order, fails, clock),
                      after_raise)

\* main(): the recovery sweep at startup; an error ends main()
StartupRecover(K) ==
    /\ main_pc = "recover"
    /\ RecoverUnsent(K, "down")
    /\ EverSent
    /\ ret' = NoRet
    /\ UNCHANGED <<clock, ticks, last_cleanup, scan, undelivered, side, parse_in, parse_out>>

\* quick_check_all_urls up to the submission of the scans; an error is caught
\* by the cycle loop, which sleeps and goes on with the next cycle
CycleStart(K) ==
    /\ main_pc = "cycle"
    /\ RecoverUnsent(K, "cooldown")
    /\ EverSent
    /\ ret' = NoRet
    /\ UNCHANGED <<clock, ticks, last_cleanup, scan, undelivered, side, parse_in, parse_out>>

\* main(): the wait before the next cycle, elapsed the seconds the cycle took
wait_time(fresh_ads_found, elapsed) ==
    IF fresh_ads_found
    THEN (IF QUICK_CHECK_INTERVAL - elapsed > 5 THEN QUICK_CHECK_INTERVAL - elapsed ELSE 5)
    ELSE (IF MIN_INTERVAL - elapsed > 10 THEN MIN_INTERVAL - elapsed ELSE 10)

\* ret after the sleep of the cycle loop: what quick_check_all_urls returned,
\* whether a scan returned True, the seconds the cycle took and the wait
WaitRet(fresh_ads_found, scan_fresh, elapsed) ==
    [op |-> "time.sleep", link |-> NoLink, before |-> NoRow,
     raised |-> FALSE, a |-> FALSE, b |-> FALSE,
     fresh_ads_found |-> fresh_ads_found, scan_fresh |-> scan_fresh,
     elapsed |-> elapsed, wait_time |-> wait_time(fresh_ads_found, elapsed)]

\* all scans of the cycle have returned: quick_check_all_urls returns
\* found_fresh, True as well when a scan has returned True, and the loop sleeps
CycleEnd ==
    /\ main_pc = "scanning"
    /\ \A s \in DOMAIN scan : scan[s].pc = "done"
    /\ main_pc' = "cycle"
    /\ scan' = [s \in DOMAIN scan |-> IdleScan]
    /\ found_fresh' = FALSE
    /\ \E elapsed \in 0..MaxElapsed :
          ret' = WaitRet(found_fresh \/ \E s \in DOMAIN scan : scan[s].fresh_found,
                         \E s \in DOMAIN scan : scan[s].fresh_found, elapsed)
    /\ UNCHANGED <<clock, ticks, db, last_cleanup, cache, handed, rehanded,
                   ever_sent, undelivered, side, parse_in, parse_out>>

\* ret after the sleep of the except branch of the cycle loop
CooldownRet ==
    [op |-> "cooldown", link |-> NoLink, before |-> NoRow,
     raised |-> FALSE, a |-> FALSE, b |-> FALSE, wait_time |-> ERROR_COOLDOWN]

\* variant of Cooldown: the error ends main()
Cooldown_fatal ==
    /\ main_pc = "cooldown"
    /\ main_pc' = "down"
    /\ ret' = CooldownRet
    /\ UNCHANGED <<clock, ticks, db, last_cleanup, cache, scan, handed, rehanded,
                   ever_sent, undelivered, found_fresh, side, parse_in, parse_out>>

\* the except branch of the cycle loop: the error is logged, the loop sleeps
\* and starts the next cycle
Cooldown ==
    /\ main_pc = "cooldown"
    /\ main_pc' = "cycle"
    /\ ret' = CooldownRet
    /\ UNCHANGED <<clock, ticks, db, last_cleanup, cache, scan, handed, rehanded,
                   ever_sent, undelivered, found_fresh, side, parse_in, parse_out>>

\* /cleanup, handled by the bot thread
cleanup_command(user) ==
    /\ main_pc # "down"
    /\ last_cleanup.present
    /\ IF ~is_admin(ADMIN_IDS, PyInt(user))
       THEN Refused(user, "cleanup")
       ELSE /\ LET swept == cleanup_old_ads(db, last_cleanup.value, clock)
               IN /\ db' = swept.db
                  /\ last_cleanup' =
                        [last_cleanup EXCEPT !.value = swept.last_cleanup]
                  /\ ret' = Ret("cleanup_old_ads", NoLink, NoRow,
                                swept.raised, swept.a, FALSE)
                  /\ answer' = Answer(user, "cleanup",
                                      IF swept.a THEN "completed" ELSE "skipped",
                                      << >>, << >>)
            /\ EverSent
            /\ UNCHANGED <<clock, ticks, main_pc, cache, scan, handed, rehanded,
                           undelivered, found_fresh, tg, ADMIN_IDS, urls_file,
                           menu, jobs, age_calls, lock_held, sends, parse_in,
                           parse_out>>

\* the process is killed: what is in memory is lost, the database is kept
Crash ==
    /\ main_pc # "down"
    /\ main_pc' = "down"
    /\ cache' = EmptyCache
    /\ scan' = [s \in Sources |-> IdleScan]
    /\ found_fresh' = FALSE
    /\ ret' = NoRet
    /\ UNCHANGED <<clock, ticks, db, last_cleanup, handed, rehanded, ever_sent,
                   undelivered, side, parse_in, parse_out>>

\* time passes while the cycle loop sleeps or the process is down: twenty
\* minutes, or a week
Tick ==
    /\ ticks < MaxTicks
    /\ main_pc \in {"down", "cycle"}
    /\ \E d \in {20, Week} : clock' = clock + d
    /\ ticks' = ticks + 1
    /\ ret' = NoRet
    /\ UNCHANGED <<main_pc, db, last_cleanup, cache, scan, handed, rehanded,
                   ever_sent, undelivered, found_fresh, side, parse_in, parse_out>>

(***************************************************************************)
(* The system                                                              *)
(***************************************************************************)
ParseIdle ==
    /\ parse_in = [date_str |-> << >>, now |-> 0]
    /\ parse_out = [called |-> FALSE, raised |-> FALSE, v |-> 0]

Init ==
    /\ clock = T0
    /\ ticks = 0
    /\ main_pc = "down"
    /\ db = [l \in Links |-> NoRow]
    /\ last_cleanup = [present |-> FALSE, value |-> 0]
    /\ cache = EmptyCache
    /\ scan = [s \in Sources |-> IdleScan]
    /\ handed = {}
    /\ rehanded = {}
    /\ undelivered = {}
    /\ found_fresh = FALSE
    /\ SideIdle
    /\ ever_sent = {}
    /\ ret = NoRet
    /\ ParseIdle

NextWith(K) ==
    \/ Start
    \/ StartupRecover(K)
    \/ CycleStart(K)
    \/ \E s \in Sources : ScanStart(s)
    \/ \E s \in Sources : RegularCard(s, K)
    \/ \E s \in Sources : CheckSent(s, K)
    \/ \E s \in Sources : AddAd(s, K)
    \/ \E s \in Sources : Send(s, K)
    \/ \E s \in Sources : PromotedCard(s, K)
    \/ CycleEnd
    \/ Crash
    \/ Tick

\* every store call succeeds
Next == NextWith({"ok"})

Spec == Init /\ [][Next]_vars

\* store calls may fail
NextFail == NextWith(FailKinds) \/ Cooldown

SpecFail == Init /\ [][NextFail]_vars

(***************************************************************************)
(* The dedup store on its own: its functions called in any order, with any *)
(* arguments, on the database init_database() has created                  *)
(***************************************************************************)
Sites == {"OLX", "OTOMOTO"}

AddCall ==
    /\ \E link \in Links, site \in Sites, date_published \in ScanPhrases :
        LET added == add_ad_to_db(db, link, extract_title_from_url(link), site,
                        extract_ad_id_from_url(link), date_published, clock, "ok")
        IN /\ db' = added.db
           /\ ret' = Ret("add_ad_to_db", link, db[link], added.raised, added.a, added.b)
    /\ EverSent
    /\ UNCHANGED <<clock, ticks, main_pc, last_cleanup, cache, scan, handed, rehanded,
                   undelivered, found_fresh, side, parse_in, parse_out>>

MarkCall ==
    /\ \E link \in Links :
        LET marked == mark_ad_as_sent(db, link, "ok")
        IN /\ db' = marked.db
           /\ ret' = Ret("mark_ad_as_sent", link, db[link], marked.raised, marked.a, FALSE)
    /\ EverSent
    /\ UNCHANGED <<clock, ticks, main_pc, last_cleanup, cache, scan, handed, rehanded,
                   undelivered, found_fresh, side, parse_in, parse_out>>

SweepCall ==
    /\ LET swept == cleanup_old_ads(db, last_cleanup.value, clock)
       IN /\ db' = swept.db
          /\ last_cleanup' = [last_cleanup EXCEPT !.value = swept.last_cleanup]
          /\ ret' = Ret("cleanup_old_ads", NoLink, NoRow, swept.raised, swept.a, FALSE)
    /\ EverSent
    /\ UNCHANGED <<clock, ticks, main_pc, cache, scan, handed, rehanded,
                   undelivered, found_fresh, side, parse_in, parse_out>>

InitStore ==
    /\ clock = T0
    /\ ticks = 0
    /\ main_pc = "down"
    /\ db = [l \in Links |-> NoRow]
    /\ last_cleanup = [present |-> TRUE, value |-> T0]
    /\ cache = EmptyCache
    /\ scan = [s \in Sources |-> IdleScan]
    /\ handed = {}
    /\ rehanded = {}
    /\ undelivered = {}
    /\ found_fresh = FALSE
    /\ SideIdle
    /\ ever_sent = {}
    /\ ret = NoRet
    /\ ParseIdle

NextStore ==
    \/ AddCall
    \/ MarkCall
    \/ SweepCall
    \/ Tick

SpecStore == InitStore /\ [][NextStore]_vars

(***************************************************************************)
(* One tracked source scanned cycle after cycle, the cycles following one  *)
(* another within the minute.  The page lists up to MaxShown               *)
(* advertisements, always in the same order; what their cards show changes *)
(* from scan to scan.                                                      *)
(***************************************************************************)
Shown(k) ==
    [host |-> "www.olx.pl", slug |-> "rower", id |-> "ID" \o ToString(k)]

\* 200 minutes, and exactly 50 minutes, before 12:00
PhOld == <<Mark("dzisiaj o"), Time(8, 40)>>
PhFifty == <<Mark("dzisiaj o"), Time(11, 10)>>

\* what the card at place k (from 1) can show: the first may be promoted,
\* the third may show a date that is 50 minutes old or is not recognised
ShownCards(k) ==
    [link : {Shown(k)},
     date : {PhToday, PhOld} \cup (IF k = 3 THEN {PhFifty, PhUnknown} ELSE {}),
     promoted : IF k = 1 THEN BOOLEAN ELSE {FALSE}]

RECURSIVE ShownUpTo(_)
ShownUpTo(n) ==
    IF n = 0 THEN { << >> }
    ELSE ShownUpTo(n - 1)
         \cup { Append(q, x) : q \in {r \in ShownUpTo(n - 1) : Len(r) = n - 1},
                               x \in ShownCards(n) }

ScanListings == ShownUpTo(MaxShown)

InitScan ==
    /\ clock = T0
    /\ ticks = 0
    /\ main_pc = "cycle"
    /\ db = [l \in {Shown(k) : k \in 1..MaxShown} |-> NoRow]
    /\ last_cleanup = [present |-> TRUE, value |-> T0]
    /\ cache = [i \in {extract_ad_id_from_url(Shown(k)) : k \in 1..MaxShown} |-> NoEntry]
    /\ scan = [s \in {1} |-> IdleScan]
    /\ handed = {}
    /\ rehanded = {}
    /\ undelivered = {}
    /\ found_fresh = FALSE
    /\ SideIdle
    /\ ever_sent = {}
    /\ ret = NoRet
    /\ ParseIdle

NextScan ==
    \/ CycleStart({"ok"})
    \/ ScanOf(1, ScanListings)
    \/ RegularCard(1, {"ok"})
    \/ CheckSent(1, {"ok"})
    \/ AddAd(1, {"ok"})
    \/ Send(1, {"ok"})
    \/ PromotedCard(1, {"ok"})
    \/ CycleEnd

SpecScan == InitScan /\ [][NextScan]_vars

(***************************************************************************)
(* The same single source when the store calls of a scan may fail          *)
(***************************************************************************)
FailListings == ShownUpTo(MaxFailShown)

NextScanFail ==
    \/ CycleStart({"ok"})
    \/ ScanOf(1, FailListings)
    \/ RegularCard(1, FailKinds)
    \/ CheckSent(1, FailKinds)
    \/ AddAd(1, FailKinds)
    \/ Send(1, FailKinds)
    \/ PromotedCard(1, FailKinds)
    \/ CycleEnd

SpecScanFail == InitScan /\ [][NextScanFail]_vars

(***************************************************************************)
(* The same single source when deliveries may fail                         *)
(***************************************************************************)
\* send_telegram_async of a started delivery ends without a message sent:
\* send_telegram_message_with_retry has raised after its last attempt for
\* every chat, which is logged and nothing else
DeliveryFails ==
    /\ \E link \in handed \ undelivered : undelivered' = undelivered \cup {link}
    /\ ret' = NoRet
    /\ UNCHANGED <<clock, ticks, main_pc, db, last_cleanup, cache, scan, handed,
                   rehanded, found_fresh, ever_sent, side, parse_in, parse_out>>

NextDelivery ==
    \/ CycleStart({"ok"})
    \/ ScanOf(1, FailListings)
    \/ RegularCard(1, {"ok"})
    \/ CheckSent(1, {"ok"})
    \/ AddAd(1, {"ok"})
    \/ Send(1, {"ok"})
    \/ PromotedCard(1, {"ok"})
    \/ CycleEnd
    \/ DeliveryFails

SpecDelivery == InitScan /\ [][NextDelivery]_vars

(***************************************************************************)
(* One source more than the pool has workers, each page with one card at   *)
(* most                                                                    *)
(***************************************************************************)
PoolSources == 1..(MAX_PARALLEL_URLS + 1)

PoolListings == ShownUpTo(1)

InitPool ==
    /\ clock = T0
    /\ ticks = 0
    /\ main_pc = "cycle"
    /\ db = [l \in {Shown(1)} |-> NoRow]
    /\ last_cleanup = [present |-> TRUE, value |-> T0]
    /\ cache = [i \in {extract_ad_id_from_url(Shown(1))} |-> NoEntry]
    /\ scan = [s \in PoolSources |-> IdleScan]
    /\ handed = {}
    /\ rehanded = {}
    /\ undelivered = {}
    /\ found_fresh = FALSE
    /\ SideIdle
    /\ ever_sent = {}
    /\ ret = NoRet
    /\ ParseIdle

NextPool ==
    \/ CycleStart({"ok"})
    \/ \E s \in PoolSources : PageLoadTimeout(s)
    \/ \E s \in PoolSources : ScanOf(s, PoolListings)
    \/ \E s \in PoolSources : RegularCard(s, {"ok"})
    \/ \E s \in PoolSources : CheckSent(s, {"ok"})
    \/ \E s \in PoolSources : AddAd(s, {"ok"})
    \/ \E s \in PoolSources : Send(s, {"ok"})
    \/ \E s \in PoolSources : PromotedCard(s, {"ok"})
    \/ CycleEnd

SpecPool == InitPool /\ [][NextPool]_vars

(***************************************************************************)
(* The same single source when rows are left unsent: the mark of a scan    *)
(* may fail, the calls of the recovery sweep succeed, and the loop may     *)
(* stall between two cycles                                                *)
(***************************************************************************)
\* between two cycles 95 or 96 minutes pass: a row published five minutes
\* before T0 is then 100 or 101 minutes old
Outage ==
    /\ ticks < MaxTicks
    /\ main_pc = "cycle"
    /\ \E d \in {2 * MAX_AD_AGE_MINUTES - 5, 2 * MAX_AD_AGE_MINUTES - 4} :
          clock' = clock + d
    /\ ticks' = ticks + 1
    /\ ret' = NoRet
    /\ UNCHANGED <<main_pc, db, last_cleanup, cache, scan, handed, rehanded,
                   ever_sent, undelivered, found_fresh, side, parse_in, parse_out>>

NextRecover ==
    \/ CycleStart({"ok"})
    \/ ScanOf(1, FailListings)
    \/ RegularCard(1, {"ok"})
    \/ CheckSent(1, {"ok"})
    \/ AddAd(1, {"ok"})
    \/ Send(1, FailKinds)
    \/ PromotedCard(1, {"ok"})
    \/ CycleEnd
    \/ Outage

SpecRecover == InitScan /\ [][NextRecover]_vars

(***************************************************************************)
(* The cycle loop of the same single source when the store calls of the    *)
(* recovery sweep and the marks of a scan may fail.  time.sleep returns    *)
(* and the loop body runs again, so the sleep after an error and the start *)
(* of a cycle are not postponed for ever.                                  *)
(***************************************************************************)
NextLoop ==
    \/ CycleStart(FailKinds)
    \/ Cooldown
    \/ ScanOf(1, FailListings)
    \/ RegularCard(1, {"ok"})
    \/ CheckSent(1, {"ok"})
    \/ AddAd(1, {"ok"})
    \/ Send(1, FailKinds)
    \/ PromotedCard(1, {"ok"})
    \/ CycleEnd

SpecLoop ==
    /\ InitScan
    /\ [][NextLoop]_vars
    /\ WF_vars(Cooldown)
    /\ WF_vars(CycleStart(FailKinds))

(***************************************************************************)
(* The running system over days: the cycle loop of one source with every   *)
(* store call succeeding, and time passing between the cycles. The process *)
(* is not restarted and the bot gets no command. The loop sleeps a finite  *)
(* time and the scan of a page ends, so no step of a cycle is postponed    *)
(* for ever.                                                               *)
(***************************************************************************)
ScanStep ==
    \/ ScanOf(1, FailListings)
    \/ RegularCard(1, {"ok"})
    \/ CheckSent(1, {"ok"})
    \/ AddAd(1, {"ok"})
    \/ Send(1, {"ok"})
    \/ PromotedCard(1, {"ok"})

NextRun ==
    \/ CycleStart({"ok"})
    \/ ScanStep
    \/ CycleEnd
    \/ Tick

SpecRun ==
    /\ InitScan
    /\ [][NextRun]_vars
    /\ WF_vars(CycleStart({"ok"}))
    /\ WF_vars(ScanStep)
    /\ WF_vars(CycleEnd)

(***************************************************************************)
(* The delivery thread of one ad on its own                                *)
(***************************************************************************)
TgFrame ==
    UNCHANGED <<clock, ticks, main_pc, db, last_cleanup, cache, scan, handed,
                rehanded, undelivered, found_fresh, bot_vars, age_calls,
                lock_held, sends, ever_sent, ret, parse_in, parse_out>>

\* send_to_telegram starts the thread: the for loop begins with the first chat
DeliveryStart ==
    /\ tg.pc \in {"idle", "done"}
    /\ tg' = [IdleDelivery EXCEPT !.pc = "attempt", !.chat = 1]
    /\ TgFrame

\* one call of bot.send_message / bot.send_photo and what follows it
Attempt ==
    /\ tg.pc = "attempt"
    /\ \E outcome \in Outcomes :
          tg' = Attempted([tg EXCEPT !.last = outcome,
                                    !.attempts[tg.chat] = @ + 1], outcome)
    /\ TgFrame

\* time.sleep(wait_time) returns and the loop takes the next attempt
RetrySleep ==
    /\ tg.pc = "sleep"
    /\ tg' = [tg EXCEPT !.pc = "attempt", !.attempt = @ + 1]
    /\ TgFrame

InitTg ==
    /\ clock = T0
    /\ ticks = 0
    /\ main_pc = "cycle"
    /\ db = [l \in {Shown(1)} |-> NoRow]
    /\ last_cleanup = [present |-> TRUE, value |-> T0]
    /\ cache = [i \in {extract_ad_id_from_url(Shown(1))} |-> NoEntry]
    /\ scan = [s \in {1} |-> IdleScan]
    /\ handed = {}
    /\ rehanded = {}
    /\ undelivered = {}
    /\ found_fresh = FALSE
    /\ SideIdle
    /\ ever_sent = {}
    /\ ret = NoRet
    /\ ParseIdle

NextTg == DeliveryStart \/ Attempt \/ RetrySleep

SpecTg == InitTg /\ [][NextTg]_vars

(***************************************************************************)
(* The lock of send_to_telegram: two scan threads fetch their page, wait   *)
(* for its content, and call send_to_telegram for a card; each started     *)
(* delivery thread (the latest one of each scan is followed) makes its     *)
(* attempts and sleeps in between. The mark is a bounded call on the local *)
(* database, so a thread in it is not halted for ever.                     *)
(***************************************************************************)
LockFrame ==
    UNCHANGED <<clock, ticks, main_pc, last_cleanup, cache, scan, handed,
                rehanded, undelivered, found_fresh, tg, bot_vars, age_calls,
                ever_sent, ret, parse_in, parse_out>>

\* the advertisement scan thread t sends
SentBy(t) == Shown(t)

\* quick_check_ads: driver.get(url)
PageFetch(t) ==
    /\ sends[t].pc = "idle"
    /\ sends' = [sends EXCEPT ![t].pc = "fetching"]
    /\ UNCHANGED <<db, lock_held>>
    /\ LockFrame

\* quick_check_ads: wait_for_page_load watches the page until it is stable
PageWait(t) ==
    /\ sends[t].pc = "fetching"
    /\ sends' = [sends EXCEPT ![t].pc = "waiting"]
    /\ UNCHANGED <<db, lock_held>>
    /\ LockFrame

\* the page is there and a card is to be sent, or nothing is
PageDone(t) ==
    /\ sends[t].pc = "waiting"
    /\ \E next \in {"card", "idle"} : sends' = [sends EXCEPT ![t].pc = next]
    /\ UNCHANGED <<db, lock_held>>
    /\ LockFrame

\* send_to_telegram: "with lock:" is entered when the lock is free
SendAcquire(t) ==
    /\ sends[t].pc = "card"
    /\ lock_held = NoHolder
    /\ lock_held' = t
    /\ sends' = [sends EXCEPT ![t].pc = "locked"]
    /\ UNCHANGED db
    /\ LockFrame

\* variant of SendMark: the lock is released by a statement after the mark,
\* which a mark that raises does not reach
SendMark_release_after(t, fail) ==
    /\ sends[t].pc = "locked"
    /\ LET m == mark_ad_as_sent(db, SentBy(t), fail)
       IN /\ db' = m.db
          /\ lock_held' = IF m.raised THEN lock_held ELSE NoHolder
          /\ sends' = [sends EXCEPT ![t].pc = IF m.raised THEN "idle" ELSE "marked"]
    /\ LockFrame

\* send_to_telegram: mark_ad_as_sent inside "with lock:"; the with statement
\* releases the lock when the mark returns and when it raises, and a raise
\* goes to the except branch, which returns False
SendMark(t, fail) ==
    /\ sends[t].pc = "locked"
    /\ LET m == mark_ad_as_sent(db, SentBy(t), fail)
       IN /\ db' = m.db
          /\ lock_held' = NoHolder
          /\ sends' = [sends EXCEPT ![t].pc = IF m.raised THEN "idle" ELSE "marked"]
    /\ LockFrame

\* send_to_telegram: telegram_thread.start() and return True
SendThreadStart(t) ==
    /\ sends[t].pc = "marked"
    /\ sends' = [sends EXCEPT ![t] =
            [pc |-> "idle", delivery |-> "attempt", attempt |-> 0]]
    /\ UNCHANGED <<db, lock_held>>
    /\ LockFrame

\* the delivery thread: one call of bot.send_* for the chat
ThreadAttempt(t, outcome) ==
    /\ sends[t].delivery = "attempt"
    /\ sends' = [sends EXCEPT ![t] =
            IF outcome = "telegram" /\ @.attempt < max_retries - 1
            THEN [@ EXCEPT !.delivery = "sleep"]
            ELSE [@ EXCEPT !.delivery = "none", !.attempt = 0]]
    /\ UNCHANGED <<db, lock_held>>
    /\ LockFrame

\* the delivery thread: time.sleep(wait_time) before the next attempt
ThreadSleep(t) ==
    /\ sends[t].delivery = "sleep"
    /\ sends' = [sends EXCEPT ![t].delivery = "attempt", ![t].attempt = @ + 1]
    /\ UNCHANGED <<db, lock_held>>
    /\ LockFrame

InitLock ==
    /\ clock = T0
    /\ ticks = 0
    /\ main_pc = "scanning"
    /\ db = [l \in {SentBy(t) : t \in ScanThreads} |->
                add_ad_to_db([k \in {l} |-> NoRow], l, extract_title_from_url(l),
                             "OLX", extract_ad_id_from_url(l), PhToday, T0, "ok").db[l]]
    /\ last_cleanup = [present |-> TRUE, value |-> T0]
    /\ cache = [i \in {extract_ad_id_from_url(SentBy(t)) : t \in ScanThreads} |->
                    NoEntry]
    /\ scan = [s \in {1} |-> IdleScan]
    /\ handed = {}
    /\ rehanded = {}
    /\ undelivered = {}
    /\ found_fresh = FALSE
    /\ SideIdle
    /\ ever_sent = {}
    /\ ret = NoRet
    /\ ParseIdle

MarkStep == \E t \in ScanThreads, fail \in FailKinds : SendMark(t, fail)

NextLock ==
    \/ \E t \in ScanThreads : PageFetch(t)
    \/ \E t \in ScanThreads : PageWait(t)
    \/ \E t \in ScanThreads : PageDone(t)
    \/ \E t \in ScanThreads : SendAcquire(t)
    \/ MarkStep
    \/ \E t \in ScanThreads : SendThreadStart(t)
    \/ \E t \in ScanThreads, outcome \in Outcomes : ThreadAttempt(t, outcome)
    \/ \E t \in ScanThreads : ThreadSleep(t)

SpecLock == InitLock /\ [][NextLock]_vars /\ WF_vars(MarkStep)

(***************************************************************************)
(* The handlers of the URL commands past their admin check, run by the two *)
(* worker threads in any order with any URL and any button                 *)
(***************************************************************************)
InitUrls == InitTg

NextUrls ==
    \/ \E w \in Workers, url \in TypedUrls : ProcessNewUrlLoad(w, 1, url)
    \/ \E w \in Workers : ProcessNewUrlSave(w)
    \/ ShowDeleteMenu(1)
    \/ \E w \in Workers, index \in 0..(Cardinality(TypedUrls) - 1) :
            DeleteLoad(w, 1, index)
    \/ \E w \in Workers : DeleteSave(w)

SpecUrls == InitUrls /\ [][NextUrls]_vars

(***************************************************************************)
(* The commands as the bot receives them: any user sends any command, and  *)
(* the ids of any set of users are configured in ADMIN_IDS                 *)
(***************************************************************************)
InitBot ==
    /\ clock = T0
    /\ ticks = 0
    /\ main_pc = "cycle"
    /\ db = [l \in {Shown(1)} |-> NoRow]
    /\ last_cleanup = [present |-> TRUE, value |-> T0]
    /\ cache = [i \in {extract_ad_id_from_url(Shown(1))} |-> NoEntry]
    /\ scan = [s \in {1} |-> IdleScan]
    /\ handed = {}
    /\ rehanded = {}
    /\ undelivered = {}
    /\ found_fresh = FALSE
    /\ tg = IdleDelivery
    /\ ADMIN_IDS \in { env_ADMIN_IDS(S) : S \in SUBSET Users }
    /\ BotIdle
    /\ age_calls = AgeIdle
    /\ lock_held = NoHolder
    /\ sends = SendsIdle
    /\ ever_sent = {}
    /\ ret = NoRet
    /\ ParseIdle

NextBot ==
    \/ \E w \in Workers, user \in Users, url \in TypedUrls : add_url(w, user, url)
    \/ \E user \in Users : list_urls(user)
    \/ \E user \in Users : delete_url(user)
    \/ \E user \in Users : cleanup_command(user)
    \/ \E user \in Users, data \in MenuButtons : callback_handler(user, data)

SpecBot == InitBot /\ [][NextBot]_vars

(***************************************************************************)
(* The same single source when the page shows promoted cards: the first    *)
(* card is promoted or regular, the others are promoted                    *)
(***************************************************************************)
PromoCards(k) ==
    [link : {Shown(k)},
     date : {PhToday, PhOld},
     promoted : IF k = 1 THEN BOOLEAN ELSE {TRUE}]

RECURSIVE PromoUpTo(_)
PromoUpTo(n) ==
    IF n = 0 THEN { << >> }
    ELSE PromoUpTo(n - 1)
         \cup { Append(q, x) : q \in {r \in PromoUpTo(n - 1) : Len(r) = n - 1},
                               x \in PromoCards(n) }

PromoListings == PromoUpTo(MaxShown)

NextPromo ==
    \/ CycleStart({"ok"})
    \/ ScanOf(1, PromoListings)
    \/ RegularCard(1, {"ok"})
    \/ CheckSent(1, {"ok"})
    \/ AddAd(1, {"ok"})
    \/ Send(1, {"ok"})
    \/ PromotedCard(1, {"ok"})
    \/ CycleEnd

SpecPromo == InitScan /\ [][NextPromo]_vars

(***************************************************************************)
(* get_cached_ad_age on its own: called for one advertisement with         *)
(* changing phrases, ten or twenty minutes passing between calls           *)
(***************************************************************************)
AgePhrases == {PhToday, PhYesterday, PhUnknown}

AgeCall ==
    /\ \E ad_id \in AdIds, date_str \in AgePhrases :
        LET got == get_cached_ad_age(cache, ad_id, date_str, clock)
        IN /\ cache' = got.cache
           /\ ret' = AgeRet(ad_id, date_str, got.age)
    /\ UNCHANGED <<clock, ticks, main_pc, db, last_cleanup, scan, handed, rehanded,
                   ever_sent, undelivered, found_fresh, side, parse_in, parse_out>>

Elapse ==
    /\ ticks < MaxTicks
    /\ \E d \in {10, 20} : clock' = clock + d
    /\ ticks' = ticks + 1
    /\ ret' = NoRet
    /\ UNCHANGED <<main_pc, db, last_cleanup, cache, scan, handed, rehanded,
                   ever_sent, undelivered, found_fresh, side, parse_in, parse_out>>

InitAge ==
    /\ clock = T0
    /\ ticks = 0
    /\ main_pc = "down"
    /\ db = [l \in Links |-> NoRow]
    /\ last_cleanup = [present |-> FALSE, value |-> 0]
    /\ cache = EmptyCache
    /\ scan = [s \in Sources |-> IdleScan]
    /\ handed = {}
    /\ rehanded = {}
    /\ undelivered = {}
    /\ found_fresh = FALSE
    /\ SideIdle
    /\ ever_sent = {}
    /\ ret = NoRet
    /\ ParseIdle

NextAge ==
    \/ AgeCall
    \/ Elapse

SpecAge == InitAge /\ [][NextAge]_vars

(***************************************************************************)
(* The cache filled: get_cached_ad_age called once a minute, each time for *)
(* an advertisement not seen before, until one more than MAX_CACHE_SIZE    *)
(* have been seen                                                          *)
(***************************************************************************)
FillIds == 1..(MAX_CACHE_SIZE + 1)

FillCall ==
    /\ ticks < MAX_CACHE_SIZE + 1
    /\ clock' = clock + 1
    /\ ticks' = ticks + 1
    /\ cache' = get_cached_ad_age(cache, ticks + 1, PhToday, clock + 1).cache
    /\ ret' = NoRet
    /\ UNCHANGED <<main_pc, db, last_cleanup, scan, handed, rehanded,
                   ever_sent, undelivered, found_fresh, side, parse_in, parse_out>>

InitFill ==
    /\ clock = T0
    /\ ticks = 0
    /\ main_pc = "down"
    /\ db = [l \in Links |-> NoRow]
    /\ last_cleanup = [present |-> FALSE, value |-> 0]
    /\ cache = [i \in FillIds |-> NoEntry]
    /\ scan = [s \in Sources |-> IdleScan]
    /\ handed = {}
    /\ rehanded = {}
    /\ undelivered = {}
    /\ found_fresh = FALSE
    /\ SideIdle
    /\ ever_sent = {}
    /\ ret = NoRet
    /\ ParseIdle

NextFill == FillCall

SpecFill == InitFill /\ [][NextFill]_vars

(***************************************************************************)
(* Two scan threads call get_cached_ad_age once each while the cache holds *)
(* MAX_CACHE_SIZE entries: for the entry checked longest ago, or for an    *)
(* advertisement not seen before                                           *)
(***************************************************************************)
CallIds == {1, MAX_CACHE_SIZE + 1}

InitCache ==
    /\ clock = T0
    /\ ticks = 0
    /\ main_pc = "scanning"
    /\ db = [l \in Links |-> NoRow]
    /\ last_cleanup = [present |-> TRUE, value |-> T0]
    /\ cache = [i \in FillIds |->
                  IF i <= MAX_CACHE_SIZE
                  THEN [present |-> TRUE, minutes_ago |-> 5,
                        last_check_time |-> T0 - 2 * MAX_CACHE_SIZE + i]
                  ELSE NoEntry]
    /\ scan = [s \in Sources |-> IdleScan]
    /\ handed = {}
    /\ rehanded = {}
    /\ undelivered = {}
    /\ found_fresh = FALSE
    /\ SideIdle
    /\ ever_sent = {}
    /\ ret = NoRet
    /\ ParseIdle

NextCache ==
    \/ \E t \in ScanThreads, ad_id \in CallIds : CacheCall(t, ad_id)
    \/ \E t \in ScanThreads : CacheRead(t)
    \/ \E t \in ScanThreads : CacheStore(t)
    \/ \E t \in ScanThreads : CacheSort(t)
    \/ \E t \in ScanThreads : CacheDel(t)

SpecCache == InitCache /\ [][NextCache]_vars

(***************************************************************************)
(* parse_polish_date on its own: called once on a phrase of up to          *)
(* MaxTokens tokens                                                        *)
(***************************************************************************)
ParseTokens ==
    { Mark("dzisiaj o"), Mark("wczoraj o"), Mark("odswiezono dnia"), Mark("odswiezono"),
      Time(11, 55), Time(0, 30), Time(25, 0), Num(5), Num(32), Num(2025),
      Word("maja"), Word("xyz") }

ParsePhrases == SeqsUpTo(ParseTokens, MaxTokens)

\* 2025-03-10 12:00 and 2025-01-01 00:30
ParseNows == { T0, Minutes(2025, 1, 1, 0, 30) }

ParseCall ==
    /\ ~parse_out.called
    /\ LET r == parse_polish_date(parse_in.date_str, parse_in.now)
       IN parse_out' = [called |-> TRUE, raised |-> r.raised, v |-> r.v]
    /\ UNCHANGED <<clock, ticks, main_pc, db, last_cleanup, cache, scan, handed,
                   rehanded, ever_sent, ret, undelivered, found_fresh, side, parse_in>>

InitParse ==
    /\ clock = T0
    /\ ticks = 0
    /\ main_pc = "down"
    /\ db = [l \in Links |-> NoRow]
    /\ last_cleanup = [present |-> FALSE, value |-> 0]
    /\ cache = EmptyCache
    /\ scan = [s \in Sources |-> IdleScan]
    /\ handed = {}
    /\ rehanded = {}
    /\ undelivered = {}
    /\ found_fresh = FALSE
    /\ SideIdle
    /\ ever_sent = {}
    /\ ret = NoRet
    /\ parse_in \in [date_str : ParsePhrases, now : ParseNows]
    /\ parse_out = [called |-> FALSE, raised |-> FALSE, v |-> 0]

NextParse == ParseCall

SpecParse == InitParse /\ [][NextParse]_vars

(***************************************************************************)
(* Properties                                                              *)
(***************************************************************************)
SameAd(l, m) == extract_ad_id_from_url(l) = extract_ad_id_from_url(m)

\* the last_cleanup setting a call of cleanup_old_ads reads: init_database
\* has inserted the current time when there was none
LastCleanupRead == IF last_cleanup.present THEN last_cleanup.value ELSE clock

\* C1: over scan cycles, recovery sweeps and restarts, no link is handed to
\* the delivery thread more than once
C1_HandedAtMostOnce == rehanded = {}

\* C2: of two scans running in the same cycle, at most one hands a given
\* link to the delivery thread from try_send_from_preview
C2_OneScanHands ==
    \A s, t \in Sources :
        s # t => scan[s].sent_links \cap scan[t].sent_links = {}

C4_OtherFormIsFound ==
    [][\A s \in Sources :
          (scan[s].pc = "cards" /\ scan'[s].pc = "add")
              => ~\E l \in Links :
                    /\ l # scan'[s].cur.link
                    /\ SameAd(l, scan'[s].cur.link)
                    /\ db[l].present
                    /\ db[l].sent_to_telegram]_vars

\* C5: add_ad_to_db for a link without a row inserts a row with
\* sent_to_telegram = 0 and expiry_date = now + 7 days and returns
\* (True, False); a row once inserted stays, and every call for a link that
\* has a row returns was-added = False
C5_RecordIfNew ==
    [][/\ \A l \in Links : db[l].present => db'[l].present
       /\ ret'.op = "add_ad_to_db" =>
            LET l == ret'.link IN
            /\ ~ret'.raised
            /\ ~db[l].present =>
                    /\ db'[l].present
                    /\ ~db'[l].sent_to_telegram
                    /\ db'[l].expiry_date = clock + Week
                    /\ ret'.a
                    /\ ~ret'.b
            /\ db[l].present => ~ret'.a]_vars

\* a call for a link whose row an earlier call inserted, made at a later time
C5_Witness ==
    /\ ret.op = "add_ad_to_db"
    /\ ret.before.present
    /\ ~ret.a
    /\ ret.before.date_found < clock

\* C6: add_ad_to_db for a link that has a row sets that row's expiry_date
\* to now + 7 days, returns (False, sent_to_telegram of the row) and changes
\* nothing else: no other field of the row, no other row, no setting
C6_RefreshesExpiryOnly ==
    [][(ret'.op = "add_ad_to_db" /\ db[ret'.link].present) =>
            LET l == ret'.link IN
            /\ db' = [db EXCEPT ![l].expiry_date = clock + Week]
            /\ last_cleanup' = last_cleanup
            /\ ~ret'.raised
            /\ ~ret'.a
            /\ ret'.b = db[l].sent_to_telegram]_vars

\* a call that has moved the expiry_date of a row that was marked sent, with
\* a site and a date phrase other than the row's
C6_Witness ==
    /\ ret.op = "add_ad_to_db"
    /\ ret.before.present
    /\ ret.before.sent_to_telegram
    /\ ret.b
    /\ db[ret.link].expiry_date # ret.before.expiry_date
    /\ db[ret.link].site = "OLX"
    /\ \E l \in Links : l # ret.link /\ db[l].present

\* C7: mark_ad_as_sent for a link that has a row, marked already or not,
\* leaves the row with sent_to_telegram = 1, returns True and changes nothing
\* else in the store
C7_MarkIsIdempotent ==
    [][(ret'.op = "mark_ad_as_sent" /\ db[ret'.link].present) =>
            LET l == ret'.link IN
            /\ db' = [db EXCEPT ![l].sent_to_telegram = TRUE]
            /\ last_cleanup' = last_cleanup
            /\ ~ret'.raised
            /\ ret'.a]_vars

\* a second mark of a row, beside a row that is not marked
C7_Witness ==
    /\ ret.op = "mark_ad_as_sent"
    /\ ret.before.present
    /\ ret.before.sent_to_telegram
    /\ ret.a
    /\ \E l \in Links : db[l].present /\ ~db[l].sent_to_telegram

\* C8: a call of cleanup_old_ads, at startup or from /cleanup, that comes
\* less than 7 days after the last_cleanup setting deletes nothing and leaves
\* the setting; a call that comes later sets the setting to now
C8_SweepOncePerWindow ==
    [][ret'.op = "cleanup_old_ads" =>
            IF clock - LastCleanupRead < Week
            THEN db' = db /\ last_cleanup'.value = LastCleanupRead
            ELSE last_cleanup'.value = clock]_vars

\* C9: a call of cleanup_old_ads that comes 7 days or more after the
\* last_cleanup setting deletes the rows with expiry_date < now and no others
C9_SweepDeletesExpired ==
    [][(ret'.op = "cleanup_old_ads" /\ clock - LastCleanupRead >= Week) =>
            \A l \in Links :
                db'[l] = IF db[l].present /\ db[l].expiry_date < clock
                         THEN NoRow ELSE db[l]]_vars

\* phrases that are empty, that no grammar recognises, or that a grammar
\* recognises with a part that is out of range or is no month name
Unrecognised(date_str) ==
    /\ \A i \in 1..Len(date_str) :
            /\ date_str[i].k # "mark"
            /\ ~(date_str[i].k = "word" /\ date_str[i].s \in DOMAIN POLISH_MONTHS)

HourOutOfRange(date_str) ==
    /\ Len(date_str) = 2
    /\ date_str[1] \in {Mark("dzisiaj o"), Mark("wczoraj o")}
    /\ date_str[2].k = "time"
    /\ ~ValidTime(date_str[2].a, date_str[2].b)

DayOutOfRange(date_str) ==
    /\ Len(date_str) = 2
    /\ date_str[1].k = "num"
    /\ date_str[2].k = "word"
    /\ date_str[2].s \in DOMAIN POLISH_MONTHS
    /\ date_str[1].a > 31

NoMonthName(date_str) ==
    /\ Len(date_str) = 4
    /\ date_str[1] = Mark("odswiezono dnia")
    /\ date_str[2].k = "num"
    /\ date_str[3].k = "word"
    /\ date_str[3].s \notin DOMAIN POLISH_MONTHS
    /\ FourDigits(date_str[4])

Malformed(date_str) ==
    \/ date_str = << >>
    \/ Unrecognised(date_str)
    \/ HourOutOfRange(date_str)
    \/ DayOutOfRange(date_str)
    \/ NoMonthName(date_str)

\* C10: parse_polish_date does not raise, and for an empty, unrecognised or
\* malformed phrase it returns infinity
C10_MalformedIsUnknown ==
    parse_out.called =>
        /\ ~parse_out.raised
        /\ Malformed(parse_in.date_str) => parse_out.v = INF

\* the rest of a phrase after its marker is one well-formed HH:MM
OneTimeAfter(date_str, s) ==
    /\ Len(SplitAfter(date_str, s)) = 1
    /\ SplitAfter(date_str, s)[1].k = "time"
    /\ ValidTime(SplitAfter(date_str, s)[1].a, SplitAfter(date_str, s)[1].b)

\* minutes after midnight of the HH:MM that follows the marker
ClockAfter(date_str, s) ==
    SplitAfter(date_str, s)[1].a * 60 + SplitAfter(date_str, s)[1].b

\* C11: for "dzisiaj o HH:MM" the age is now minus today's HH:MM when that
\* time is not after now and now minus yesterday's HH:MM otherwise, so it is
\* at least 0 and less than 1440 minutes
C11_TodayWithinADay ==
    (/\ parse_out.called
     /\ Contains(parse_in.date_str, "dzisiaj o")
     /\ OneTimeAfter(parse_in.date_str, "dzisiaj o"))
    => /\ parse_out.v >= 0
       /\ parse_out.v < 1440
       /\ (parse_out.v + ClockAfter(parse_in.date_str, "dzisiaj o")
               - (parse_in.now - DayStart(parse_in.now))) \in {0, 1440}
       /\ (ClockAfter(parse_in.date_str, "dzisiaj o")
               <= parse_in.now - DayStart(parse_in.now))
          => parse_out.v = (parse_in.now - DayStart(parse_in.now))
                              - ClockAfter(parse_in.date_str, "dzisiaj o")

\* "dzisiaj o 11:55" read at 00:30 is yesterday's 11:55
C11_Witness ==
    /\ parse_out.called
    /\ parse_in.date_str = <<Mark("dzisiaj o"), Time(11, 55)>>
    /\ parse_in.now = Minutes(2025, 1, 1, 0, 30)
    /\ parse_out.v = 755

\* C12: the grammars are tried in the order today, yesterday, refreshed,
\* day-month; the first one whose marker occurs decides, and when the rest
\* of the phrase does not fit it the result is infinity, whatever a later
\* grammar would have made of the phrase
C12_FirstMarkerDecides ==
    parse_out.called =>
        /\ Contains(parse_in.date_str, "dzisiaj o")
           => /\ parse_out.v = INF \/ (parse_out.v >= 0 /\ parse_out.v < 1440)
              /\ ~OneTimeAfter(parse_in.date_str, "dzisiaj o") => parse_out.v = INF
        /\ (/\ ~Contains(parse_in.date_str, "dzisiaj o")
            /\ Contains(parse_in.date_str, "wczoraj o"))
           => /\ parse_out.v = INF \/ (parse_out.v > 0 /\ parse_out.v < 2880)
              /\ ~OneTimeAfter(parse_in.date_str, "wczoraj o") => parse_out.v = INF
              /\ OneTimeAfter(parse_in.date_str, "wczoraj o")
                 => parse_out.v = (parse_in.now - DayStart(parse_in.now)) + 1440
                                     - ClockAfter(parse_in.date_str, "wczoraj o")
        /\ (/\ ~Contains(parse_in.date_str, "dzisiaj o")
            /\ ~Contains(parse_in.date_str, "wczoraj o")
            /\ Contains(parse_in.date_str, "odswiezono dnia")
            /\ SearchDMY(SplitAfter(parse_in.date_str, "odswiezono dnia")) = 0)
           => parse_out.v = INF
        /\ (/\ ~Contains(parse_in.date_str, "dzisiaj o")
            /\ ~Contains(parse_in.date_str, "wczoraj o")
            /\ ~Contains(parse_in.date_str, "odswiezono dnia")
            /\ Contains(parse_in.date_str, "odswiezono")
            /\ SearchDMY(SplitAfter(parse_in.date_str, "odswiezono")) = 0)
           => parse_out.v = INF

\* "5 maja dzisiaj o": the today grammar decides and fails, although the
\* day-month grammar would read "5 maja"
C12_Witness ==
    /\ parse_out.called
    /\ parse_in.date_str = <<Num(5), Word("maja"), Mark("dzisiaj o")>>
    /\ parse_out.v = INF

\* a day and a month name, then an optional year, then an optional HH:MM
DayMonthPhrase(date_str) ==
    /\ Len(date_str) \in 2..4
    /\ date_str[1].k = "num"
    /\ date_str[2].k = "word"
    /\ date_str[2].s \in DOMAIN POLISH_MONTHS
    /\ Len(date_str) = 3 => (FourDigits(date_str[3]) \/ date_str[3].k = "time")
    /\ Len(date_str) = 4 => (FourDigits(date_str[3]) /\ date_str[4].k = "time")

YearGiven(date_str) == Len(date_str) >= 3 /\ date_str[3].k = "num"

\* the date and time a day-month phrase names, in the year y
Named(date_str, y) ==
    IF date_str[Len(date_str)].k = "time"
    THEN datetime(y, POLISH_MONTHS[date_str[2].s], date_str[1].a,
                  date_str[Len(date_str)].a, date_str[Len(date_str)].b)
    ELSE datetime(y, POLISH_MONTHS[date_str[2].s], date_str[1].a, 0, 0)

\* C13: a day-month phrase without a year whose date in the current year
\* is after now is aged from the same day, month and time of day one year
\* earlier; a year that is given is used as it stands
C13_LastYearKeepsTime ==
    (parse_out.called /\ DayMonthPhrase(parse_in.date_str)) =>
        /\ (/\ YearGiven(parse_in.date_str)
            /\ Named(parse_in.date_str, parse_in.date_str[3].a).ok)
           => parse_out.v = parse_in.now
                               - Named(parse_in.date_str, parse_in.date_str[3].a).t
        /\ (/\ ~YearGiven(parse_in.date_str)
            /\ Named(parse_in.date_str, YearOf(parse_in.now)).ok
            /\ Named(parse_in.date_str, YearOf(parse_in.now)).t > parse_in.now
            /\ Named(parse_in.date_str, YearOf(parse_in.now) - 1).ok)
           => parse_out.v = parse_in.now
                               - Named(parse_in.date_str, YearOf(parse_in.now) - 1).t

\* C14: get_cached_ad_age returns the cached age plus the minutes gone by
\* since it was cached, whatever the phrase, and leaves the cache alone,
\* exactly when an entry of the advertisement was stored less than 30
\* minutes ago; otherwise it returns what the parser makes of the phrase
\* and stores that with the present time
C14_CachedUnderHalfAnHour ==
    [][ret'.op = "get_cached_ad_age" =>
        IF /\ cache[ret'.ad_id].present
           /\ clock - cache[ret'.ad_id].last_check_time < 30
        THEN /\ ret'.age = Plus(cache[ret'.ad_id].minutes_ago,
                                clock - cache[ret'.ad_id].last_check_time)
             /\ (/\ cache[ret'.ad_id].minutes_ago = 5
                 /\ clock - cache[ret'.ad_id].last_check_time = 10)
                => ret'.age = 15
             /\ cache' = cache
        ELSE /\ ret'.age = parse_polish_date(ret'.date_str, clock).v
             /\ cache' = [cache EXCEPT ![ret'.ad_id] =
                             [present |-> TRUE, minutes_ago |-> ret'.age,
                              last_check_time |-> clock]]]_vars

\* an age of 5 cached at 12:00 is returned as 15 at 12:10 for a phrase the
\* parser does not recognise
C14_Witness ==
    /\ ret.op = "get_cached_ad_age"
    /\ ret.date_str = PhUnknown
    /\ ret.age = 15
    /\ clock = T0 + 10
    /\ cache[ret.ad_id] = [present |-> TRUE, minutes_ago |-> 5, last_check_time |-> T0]

\* C15: the cache never holds more than MAX_CACHE_SIZE entries after a
\* call, and the call that stores entry MAX_CACHE_SIZE + 1 removes the 200
\* entries checked longest ago and no other: the rest, the new one
\* included, stay as they were
C15_EvictsOldestFifth ==
    /\ [](Cardinality(Held(cache)) <= MAX_CACHE_SIZE)
    /\ [][(/\ Cardinality(Held(cache)) = MAX_CACHE_SIZE
            /\ cache' # cache)
          => /\ Cardinality(Held(cache') \ Held(cache)) = 1
             /\ Cardinality(Held(cache) \ Held(cache')) = 200
             /\ Cardinality(Held(cache')) = MAX_CACHE_SIZE + 1 - 200
             /\ \A i \in Held(cache) \ Held(cache'), j \in Held(cache') :
                    cache[i].last_check_time < cache'[j].last_check_time
             /\ \A j \in Held(cache') \cap Held(cache) : cache'[j] = cache[j]]_vars

\* after 1001 advertisements the first 200 are gone, the other 801 are held
C15_Witness ==
    /\ DOMAIN cache = FillIds
    /\ Held(cache) = 201..(MAX_CACHE_SIZE + 1)
    /\ cache[MAX_CACHE_SIZE + 1].last_check_time = clock

\* the age quick_check_ads computes for a card in the present state
ComputedAge(card) ==
    IF card.date = << >> THEN INF
    ELSE get_cached_ad_age(cache, extract_ad_id_from_url(card.link), card.date, clock).age

\* source s takes the step of the card loop for the card at the head
Evaluates(s) ==
    /\ scan[s].pc = "cards"
    /\ scan'[s] # scan[s]

\* C16: a scan starts a delivery only for a card, regular or promoted,
\* whose computed age is at most MAX_AD_AGE_MINUTES
C16_HandedWithinWindow ==
    [][\A s \in DOMAIN scan :
        /\ (scan[s].pc = "send" /\ scan[s].cur.link \in handed')
           => scan[s].cur.minutes_ago <= MAX_AD_AGE_MINUTES
        /\ (/\ Evaluates(s)
            /\ Head(scan[s].cards).promoted
            /\ ret'.op = "mark_ad_as_sent")
           => ComputedAge(Head(scan[s].cards)) <= MAX_AD_AGE_MINUTES
        /\ (/\ Evaluates(s)
            /\ ComputedAge(Head(scan[s].cards)) > MAX_AD_AGE_MINUTES)
           => /\ handed' = handed
              /\ scan'[s].pc \notin {"add", "check_sent", "send"}]_vars

\* a promoted card 200 minutes old has been passed over by the card loop
C16_Witness ==
    /\ scan[1].pc = "cards"
    /\ Len(scan[1].all_cards) >= 2
    /\ scan[1].cards = Tail(scan[1].all_cards)
    /\ scan[1].all_cards[1].promoted
    /\ scan[1].all_cards[1].date = PhOld
    /\ cache[extract_ad_id_from_url(scan[1].all_cards[1].link)].minutes_ago = 200
    /\ scan[1].all_cards[1].link \notin handed

\* C17: a regular card whose computed age is exactly MAX_AD_AGE_MINUTES is
\* classified old: it goes neither to the store nor to the Notifier
C17_FiftyIsOld ==
    [][\A s \in DOMAIN scan :
        (/\ Evaluates(s)
         /\ ~Head(scan[s].cards).promoted
         /\ ComputedAge(Head(scan[s].cards)) = MAX_AD_AGE_MINUTES)
        => /\ scan'[s].pc \notin {"add", "check_sent", "send"}
           /\ scan'[s].consecutive_old_count = scan[s].consecutive_old_count + 1]_vars

\* C18: an advertisement whose age was unknown in an earlier scan is
\* evaluated afresh: when its card now shows a phrase the parser reads as
\* an age within the window, the card goes on to be notified
C18_UnknownIsReevaluated ==
    [][\A s \in DOMAIN scan :
        (/\ Evaluates(s)
         /\ ~Head(scan[s].cards).promoted
         /\ cache[extract_ad_id_from_url(Head(scan[s].cards).link)].present
         /\ cache[extract_ad_id_from_url(Head(scan[s].cards).link)].minutes_ago = INF
         /\ Head(scan[s].cards).date # << >>
         /\ parse_polish_date(Head(scan[s].cards).date, clock).v < MAX_AD_AGE_MINUTES)
        => /\ scan'[s].pc \in {"add", "check_sent"}
           /\ scan'[s].cur.link = Head(scan[s].cards).link]_vars

\* one of the first SKIP_FIRST_N_ADS cards of a listing is within the window
FreshInSkipped(all_cards) ==
    \E i \in 1..Len(all_cards) :
        /\ i <= SKIP_FIRST_N_ADS
        /\ ComputedAge(all_cards[i]) <= MAX_AD_AGE_MINUTES

\* C19: the card loop starts at the third card of the listing, unless one
\* of the first two is within the window: then it starts at the first
\* card, and a first card that is within the window and not yet marked
\* sent is handed to the Notifier
C19_SkipUnlessFreshOnTop ==
    [][\A s \in DOMAIN scan :
        /\ (scan[s].pc = "idle" /\ scan'[s].pc = "cards")
           => scan'[s].cards =
                 IF FreshInSkipped(scan'[s].all_cards)
                 THEN scan'[s].all_cards
                 ELSE SubSeq(scan'[s].all_cards, SKIP_FIRST_N_ADS + 1,
                             Len(scan'[s].all_cards))
        /\ (/\ Evaluates(s)
            /\ scan[s].cards = scan[s].all_cards
            /\ ComputedAge(Head(scan[s].cards)) <= MAX_AD_AGE_MINUTES
            /\ ~db[Head(scan[s].cards).link].present)
           => IF Head(scan[s].cards).promoted
              THEN Head(scan[s].cards).link \in handed'
              ELSE /\ scan'[s].pc = "add"
                   /\ scan'[s].cur.link = Head(scan[s].cards).link
        /\ scan[s].pc = "add" => (scan'[s].pc = "send" /\ scan'[s].cur = scan[s].cur)
        /\ scan[s].pc = "send" => scan[s].cur.link \in handed']_vars

\* nothing was skipped and the first card of the listing has been notified
C19_Witness ==
    /\ scan[1].pc = "cards"
    /\ Len(scan[1].all_cards) >= 3
    /\ scan[1].cards = Tail(scan[1].all_cards)
    /\ ~scan[1].all_cards[1].promoted
    /\ scan[1].sent_links = {scan[1].all_cards[1].link}
    /\ scan[1].all_cards[1].link \in handed

\* C20: the card loop ends before the last card only when
\* CONSECUTIVE_OLD_COUNT cards in a row have been classified old
C20_StopsAfterThreeOld ==
    [][\A s \in DOMAIN scan :
        (/\ scan[s].pc = "cards"
         /\ scan'[s].pc = "done"
         /\ Len(scan[s].cards) > 1)
        => scan'[s].consecutive_old_count >= CONSECUTIVE_OLD_COUNT]_vars

\* from its third card on the listing is in reverse-chronological order
OrganicInOrder(all_cards) ==
    \A i, j \in (SKIP_FIRST_N_ADS + 1)..Len(all_cards) :
        i < j => ComputedAge(all_cards[i]) <= ComputedAge(all_cards[j])

\* C21: when the card loop of a listing with an ordered organic part ends
\* before the last card, none of the cards it leaves out is within the
\* window and still without a mark in the store
C21_EarlyExitMissesNothing ==
    [][\A s \in DOMAIN scan :
        (/\ scan[s].pc = "cards"
         /\ scan'[s].pc = "done"
         /\ Len(scan[s].cards) > 1
         /\ OrganicInOrder(scan[s].all_cards))
        => \A k \in 2..Len(scan[s].cards) :
              \/ ComputedAge(scan[s].cards[k]) > MAX_AD_AGE_MINUTES
              \/ /\ db'[scan[s].cards[k].link].present
                 /\ db'[scan[s].cards[k].link].sent_to_telegram]_vars

\* C22: the card loop of one scan extracts the preview of at most
\* MAX_PROMO_TO_CHECK promoted cards, fresh or old
C22_ThreePromotedEvaluated ==
    \A s \in DOMAIN scan : scan[s].promo_evaluated <= MAX_PROMO_TO_CHECK

\* C23: when the processing of a regular card raises in the store lookup or in
\* the recording, the card loop goes on with the next card and the card is not
\* counted as an old one
C23_ErrorSkipsOneCard ==
    [][\A s \in DOMAIN scan :
        (/\ scan[s].pc \in {"cards", "check_sent", "add"}
         /\ scan'[s] # scan[s]
         /\ Len(scan[s].cards) > 1
         /\ ret'.raised
         /\ ret'.op \in {"check_ad_exists", "check_ad_sent", "add_ad_to_db"})
        => /\ scan'[s].pc = "cards"
           /\ scan'[s].cards = Tail(scan[s].cards)
           /\ scan'[s].consecutive_old_count <= scan[s].consecutive_old_count]_vars

\* C24: when wait_for_page_load times out for a source, its scan ends for the
\* cycle and reports no fresh ad, no delivery is started, the store and the age
\* cache are unchanged, the cycle loop keeps running and the scans of the other
\* sources are untouched
C24_TimeoutIsSoft ==
    [][ret'.op = "wait_for_page_load" =>
        /\ db' = db
        /\ last_cleanup' = last_cleanup
        /\ handed' = handed
        /\ main_pc' = main_pc
        /\ main_pc' = "scanning"
        /\ \E s \in DOMAIN scan :
              /\ scan[s].pc = "idle"
              /\ scan'[s].pc = "done"
              /\ ~scan'[s].fresh_found
              /\ \A o \in DOMAIN scan \ {s} : scan'[o] = scan[o]]_vars

\* one source has timed out while the scan of another one is at its cards
C24_Witness ==
    /\ ret.op = "wait_for_page_load"
    /\ \E s, o \in DOMAIN scan :
          /\ scan[s].pc = "done"
          /\ scan[o].pc = "cards"

\* C25: a delivery is started for a link only when mark_ad_as_sent for that
\* link has succeeded: a step whose mark has failed starts no delivery
C25_DispatchAfterSuccessfulMark ==
    [][(ret'.op = "mark_ad_as_sent" /\ ~ret'.a)
        => /\ handed' = handed
           /\ rehanded' = rehanded]_vars

\* C26: once the delivery of a link with a row marked as sent has failed for
\* good, the row stays marked as sent and no later scan or recovery sweep
\* starts a delivery for that link again
C26_FailedDeliveryIsNotRetried ==
    [][\A link \in undelivered :
        (/\ db[link].present
         /\ db[link].sent_to_telegram
         /\ link \notin rehanded)
        => /\ db'[link].present
           /\ db'[link].sent_to_telegram
           /\ link \notin rehanded']_vars

InProgress == {s \in DOMAIN scan : scan[s].pc \notin {"idle", "done"}}

\* C27: at most MAX_PARALLEL_URLS scans are in progress at any moment; in a
\* cycle the scan of a source starts once (it stays done until the cycle ends)
\* and the cycle ends only when the scan of every source is done
C27_OneScanEachThreeAtATime ==
    /\ [](Cardinality(InProgress) <= MAX_PARALLEL_URLS)
    /\ [][/\ \A s \in DOMAIN scan :
               (scan[s].pc = "done" /\ scan'[s].pc # "done")
                   => (main_pc = "scanning" /\ main_pc' = "cycle")
          /\ (main_pc = "scanning" /\ main_pc' = "cycle")
                   => \A s \in DOMAIN scan : scan[s].pc = "done"]_vars

\* the pool is full: three scans are in progress, a fourth source waits
C27_Witness ==
    /\ Cardinality(InProgress) = MAX_PARALLEL_URLS
    /\ \E s \in DOMAIN scan : scan[s].pc = "idle"

\* the age process_unsent_ads computes for the row of a link
RowAge(link) ==
    get_cached_ad_age(cache, db[link].ad_id, db[link].date_published, clock).age

Unsent(link) == db[link].present /\ ~db[link].sent_to_telegram

\* C28: the recovery sweep runs before any scan of the cycle starts; it marks
\* every unsent row as sent, starts a delivery for the rows at most
\* 2 * MAX_AD_AGE_MINUTES old and none for the older ones
C28_RecoverySweepSettlesUnsent ==
    /\ []((\E s \in DOMAIN scan : scan[s].pc # "idle") => main_pc = "scanning")
    /\ [][(main_pc = "cycle" /\ main_pc' = "scanning") =>
            \A link \in DOMAIN db : Unsent(link) =>
                /\ db'[link].present /\ db'[link].sent_to_telegram
                /\ RowAge(link) <= 2 * MAX_AD_AGE_MINUTES
                      => /\ link \in handed'
                         /\ link \in handed => link \in rehanded'
                /\ RowAge(link) > 2 * MAX_AD_AGE_MINUTES
                      => /\ link \in handed' <=> link \in handed
                         /\ link \in rehanded' <=> link \in rehanded]_vars

\* a sweep has just marked a row older than 2 * MAX_AD_AGE_MINUTES whose
\* delivery was never started
C28_Witness ==
    /\ main_pc = "scanning"
    /\ \A s \in DOMAIN scan : scan[s].pc = "idle"
    /\ \E link \in DOMAIN db :
          /\ db[link].present /\ db[link].sent_to_telegram
          /\ link \notin handed
          /\ RowAge(link) > 2 * MAX_AD_AGE_MINUTES

\* C29: the sleep after a cycle is max(5, QUICK_CHECK_INTERVAL - elapsed) when
\* a scan of the cycle has returned True and max(10, MIN_INTERVAL - elapsed)
\* otherwise; it is at least 5, and at least 10 when no scan returned True
C29_WaitFollowsScans ==
    ret.op = "time.sleep" =>
        /\ ret.wait_time =
              (IF ret.scan_fresh
               THEN (IF 15 - ret.elapsed > 5 THEN 15 - ret.elapsed ELSE 5)
               ELSE (IF 20 - ret.elapsed > 10 THEN 20 - ret.elapsed ELSE 10))
        /\ ret.wait_time >= 5
        /\ ~ret.scan_fresh => ret.wait_time >= 10

\* C30: an error raised inside a cycle does not end the cycle loop: no step
\* of the running loop brings main() down, the except branch sleeps
\* ERROR_COOLDOWN seconds and goes back to the start of a cycle, and after a
\* failed cycle the next cycle always begins
C30_LoopSurvivesErrors ==
    /\ [][main_pc # "down" => main_pc' # "down"]_vars
    /\ [][main_pc = "cooldown" =>
            (main_pc' = "cycle" /\ ret'.op = "cooldown" /\ ret'.wait_time = 20)]_vars
    /\ (main_pc = "cooldown") ~> (main_pc = "cycle")

\* the recovery sweep of a cycle has raised and the loop is in its except branch
C30_Witness ==
    /\ main_pc = "cooldown"
    /\ \E link \in DOMAIN db : db[link].present /\ ~db[link].sent_to_telegram

\* C31: send_telegram_message_with_retry makes at most max_retries = 5
\* attempts for a chat; after a failed attempt k < 5 with a transport error
\* it sleeps 3 * k seconds and tries again, a success ends the attempts, and
\* the fifth failed attempt raises to the caller
C31_FiveAttemptsGrowingPause ==
    /\ [](\A c \in CHAT_IDS : tg.attempts[c] <= 5)
    /\ [][tg.pc = "attempt" =>
            LET c == tg.chat
                k == tg.attempts[c] + 1
            IN /\ tg'.attempts[c] = k
               /\ tg'.last = "ok"
                    => (tg'.result[c] = "sent" /\ tg'.pc # "sleep"
                        /\ (tg'.pc = "attempt" => tg'.chat = c + 1))
               /\ (tg'.last = "telegram" /\ k < 5)
                    => (tg'.pc = "sleep" /\ tg'.wait_time = 3 * k
                        /\ tg'.result[c] = "none")
               /\ (tg'.last # "ok" /\ k = 5) => tg'.result[c] = "raised"]_vars
    /\ [][tg.pc = "sleep" =>
            (tg'.pc = "attempt" /\ tg'.chat = tg.chat
             /\ tg'.attempts = tg.attempts)]_vars

\* the fifth attempt for a chat has failed with a transport error after the
\* pause of 12 seconds and the call has raised
C31_Witness ==
    \E c \in CHAT_IDS :
        /\ tg.attempts[c] = 5
        /\ tg.result[c] = "raised"
        /\ tg.last = "telegram"
        /\ tg.wait_time = 12

\* C39: when the delivery to one chat has failed for good, the for loop goes
\* on with the next chat: the thread ends only after every chat of CHAT_IDS
\* has had its own sequence of attempts, starting with a first attempt
C39_EveryChatIsTried ==
    /\ [](tg.pc = "done" =>
            \A c \in CHAT_IDS : tg.attempts[c] >= 1 /\ tg.result[c] # "none")
    /\ [][(/\ tg.pc = "attempt"
            /\ tg'.result[tg.chat] = "raised"
            /\ tg.chat < MaxChats)
           => /\ tg'.pc = "attempt"
              /\ tg'.chat = tg.chat + 1
              /\ tg'.attempt = 0
              /\ tg'.attempts[tg'.chat] = 0]_vars

\* the delivery to the first chat has failed for good and the second chat has
\* got the message
C39_Witness ==
    /\ tg.pc = "done"
    /\ tg.result[1] = "raised"
    /\ tg.attempts[1] = 5
    /\ tg.result[2] = "sent"

\* the host of a URL: the pieces between the scheme and the path
Schemes == {"http://", "https://"}
HostOf(url) ==
    IF url # << >> /\ url[1] \in Schemes /\ Len(url) >= 2
    THEN (IF Len(url) >= 3 /\ url[2] = "www." THEN url[3] ELSE url[2])
    ELSE ""

Supported(url) ==
    /\ url # << >> /\ url[1] \in Schemes
    /\ HostOf(url) \in {"olx.pl", "otomoto.pl"}

\* C32: every URL in the tracked list starts with http:// or https:// and
\* has a host in olx.pl or otomoto.pl, and no URL is in the list twice
C32_ListHoldsSupportedUrlsOnce ==
    /\ \A i \in DOMAIN urls_file : Supported(urls_file[i])
    /\ \A i, j \in DOMAIN urls_file : urls_file[i] = urls_file[j] => i = j

\* C40: a delete that answers "removed" has removed the URL its button
\* showed, and a URL leaves the tracked list only by the delete that removed
\* it: neither an add nor a delete of another URL loses it
C40_DeleteRemovesShownAddIsKept ==
    /\ [](answer.cmd = "del" /\ answer.reply = "removed"
            => answer.removed = answer.shown)
    /\ [][\A u \in Range(urls_file) :
            u \notin Range(urls_file')
                => /\ answer'.cmd = "del"
                   /\ answer'.reply = "removed"
                   /\ answer'.removed = u]_vars

\* C38: is_admin gives True for exactly the ids configured in ADMIN_IDS, and
\* a command is refused exactly when its sender is not configured
C38_AdminsAreTheConfiguredIds ==
    /\ \A u \in Users :
            is_admin(ADMIN_IDS, PyInt(u)) <=> PyInt(u) \in ADMIN_IDS
    /\ answer.cmd # "none"
            => (answer.reply \in {"refused", "refused query"}
                    <=> PyInt(answer.user) \notin ADMIN_IDS)

\* what the card at the head of the scan of source s is classified as
SkipClasses == {"SKIP_OLD", "SKIP_PROMOTED", "DEFER_UNKNOWN"}
ClassOf(s) ==
    LET card == Head(scan[s].cards)
        preview == extract_preview_data(card, TrackedUrl(s), cache, clock)
    IN IF card.promoted /\ scan[s].promo_processed >= MAX_PROMO_TO_CHECK
       THEN "SKIP_PROMOTED"
       ELSE IF ~preview.has_age THEN "DEFER_UNKNOWN"
       ELSE IF preview.minutes_ago > MAX_AD_AGE_MINUTES THEN "SKIP_OLD"
       ELSE "NOTIFY_NOW"

\* C33: the step of a scan that classifies its card as SKIP_OLD,
\* SKIP_PROMOTED or DEFER_UNKNOWN, and the step that skips the first cards
\* of the listing, leave every row of the store and the last_cleanup
\* setting as they were
C33_SkipLeavesStore ==
    [][\A s \in DOMAIN scan :
          \/ /\ scan[s].pc = "cards"
             /\ scan'[s] # scan[s]
             /\ ClassOf(s) \in SkipClasses
          \/ /\ scan[s].pc = "idle"
             /\ scan'[s].pc # "idle"
          => db' = db /\ last_cleanup' = last_cleanup]_vars

\* a scan has ended on a card skipped as old or undated while the store
\* holds a row
C33_Witness ==
    \E s \in DOMAIN scan :
        /\ scan[s].pc = "done"
        /\ scan[s].consecutive_old_count >= 1
        /\ \E l \in DOMAIN db : db[l].present

\* C34: when a scan has sighted a card within the window whose link has a
\* row, sent or not, then at the end of the handling of that card the row's
\* expiry_date is 7 days after the time of the sighting
C34_ResightingRefreshesExpiry ==
    [][\A s \in DOMAIN scan :
          /\ scan[s].pc \in {"check_sent", "send"}
          /\ scan'[s].pc \notin {"check_sent", "send"}
          /\ db[scan[s].cur.link].present
          => db'[scan[s].cur.link].expiry_date = clock' + Week]_vars

\* a row whose expiry_date has passed while the sweep interval has elapsed
SweepDue(l) ==
    /\ db[l].present
    /\ db[l].expiry_date < clock
    /\ last_cleanup.present
    /\ clock - last_cleanup.value >= Week

\* C35: in the running system a row whose expiry_date has passed is deleted
\* at some time after the sweep interval has elapsed
C35_ExpiredRowsAreSwept ==
    \A l \in {Shown(k) : k \in 1..MaxShown} : SweepDue(l) ~> ~db[l].present

\* a thread has changed the cache and has not finished its eviction
Mutating(t) == age_calls[t].pc \in {"stored", "del"}

\* no call of get_cached_ad_age has failed on an entry that is gone
NoCallFailed == \A t \in ScanThreads : age_calls[t].pc # "KeyError"

\* C36: no two threads are changing the age cache at the same time, no call
\* of get_cached_ad_age fails on an entry another thread has deleted, and
\* whenever no thread is changing the cache it holds at most MAX_CACHE_SIZE
\* entries
C36_CacheUpdatesAreExclusive ==
    /\ \A t, u \in ScanThreads : Mutating(t) /\ Mutating(u) => t = u
    /\ NoCallFailed
    /\ (\A t \in ScanThreads : ~Mutating(t))
            => Cardinality(Held(cache)) <= MAX_CACHE_SIZE

\* C37: the thread that holds the lock is inside the mark of
\* send_to_telegram: a thread that fetches a page, waits for its content,
\* has left the mark or is between two pages does not hold it, and no
\* delivery thread ever does; every way out of the mark, a raise included,
\* frees the lock; and a held lock becomes free whatever the deliveries do
C37_LockOnlyAroundMark ==
    /\ [](lock_held # NoHolder => sends[lock_held].pc = "locked")
    /\ [](\A t \in ScanThreads :
            sends[t].pc \in {"fetching", "waiting", "marked", "idle", "card"}
                => lock_held # t)
    /\ [][\A t \in ScanThreads :
            sends[t].pc = "locked" /\ sends'[t].pc # "locked"
                => lock_held' = NoHolder]_vars
    /\ (lock_held # NoHolder) ~> (lock_held = NoHolder)

\* the delivery started by scan 1 sleeps before a retry while scan 2 is
\* inside its mark, holding the lock
C37_Witness ==
    /\ sends[1].delivery = "sleep"
    /\ sends[2].pc = "locked"
    /\ lock_held = 2

====
